---------------------------- MODULE Spec2Model ----------------------------
(***************************************************************************)
(* OptiTrade: the broker session (src/src/tools.py module globals and      *)
(* authenticate_angel), the dashboard's TTL-aware login (src/app.py), the  *)
(* spot tool and the option-chain tool with its simulated fallback.        *)
(*                                                                         *)
(* Python statements that touch the module globals are separate steps of   *)
(* the calling thread (pc[t]); a nested tool call keeps its return position*)
(* in authRet / ltpRet.  An exchange (generateSession call) is numbered    *)
(* 1, 2, ...; a token's value is the number of the exchange that issued it *)
(* and 0 stands for None.                                                  *)
(***************************************************************************)
EXTENDS Integers, Sequences, FiniteSets, TLC

\* ------------------------------------------------------------------ bounds
NThreads == 2
MaxCalls == 2
MaxRuns == 3
MaxChains == 2
MaxTicks == 3
MaxBars == 21         \* bars of an indicator series
MaxDataCalls == 2     \* calls of the quote and history tools
MaxUpdates == 2       \* updates the crew callbacks append in one run
MaxCount == 3         \* expiry dates asked for
MaxBtBars == 4        \* bars of a backtest series, all lists up to this length

Threads == 1..NThreads

\* src/app.py:382
AUTH_TTL_SECONDS == 3600

VARIABLES
    creds,            \* the four ANGEL_* environment variables: "ok", "missing", "badtotp"
    _smart_api,       \* the SmartConnect handle [id, sess, ok]: id 0 is None, sess the exchange
                      \* that logged it in (0: none), ok whether its latest exchange succeeded
    _auth_token,      \* exchange number, 0 is None
    _feed_token,
    _refresh_token,
    nHandles,         \* SmartConnect objects constructed so far
    nExch,            \* generateSession calls issued so far
    allExchOk,        \* every exchange so far was answered with a full success
    badGet,           \* call sites where .get was executed on a non-dict value
    requests,         \* data requests issued so far: [tool, handle]
    nAuthCalls,       \* authenticate_angel invocations so far
    opsStarted,
    pc,               \* per thread: position in the running tool
    authRet,          \* per thread: where authenticate_angel returns to
    session_data,     \* per thread: authenticate_angel's local session_data
    auth_result,      \* per thread: the dict authenticate_angel returned
    pre,              \* per thread: the session globals when authenticate_angel was entered
    ltpRet,           \* per thread: where get_angel_ltp returns to
    ltp_data,         \* per thread: get_angel_ltp's local ltp_data
    ltp_res,          \* per thread: the dict get_angel_ltp returned
    angel_auth,       \* st.session_state.angel_auth ("absent" status: key not set)
    angel_auth_time,  \* st.session_state.angel_auth_time
    now,              \* time.time()
    nTicks,
    acq,              \* what the last dashboard run saw when it decided
    _instrument_master, \* [loaded, items]: loaded FALSE is None
    expiry_date,      \* get_angel_option_chain's argument
    spot_price,       \* its locals; "defined" holds the names bound so far
    atm_strike,
    defined,
    target_dt,
    token_map,
    market_data,
    option_chain,
    result,           \* the dict get_angel_option_chain returned
    raised,           \* an exception left get_angel_option_chain
    batchReqs,        \* the token lists of the getMarketData(LTP) requests of this call
    resolved,         \* the filter loop of this call has run to its end
    dlRet,            \* where download_instrument_master_json returns to
    dl_res,           \* the status it returned
    sim_last,         \* the latest call of _generate_simulated_option_chain: arguments and value
    sim_prev,         \* the call before it
    bt_args,          \* backtest_option_strategy: the arguments of the latest call
    bt_ret,           \* the dict it returned
    bt_pnls,          \* the values its loop gave to pnl, in order
    ind_args,         \* calculate_technical_indicators: the argument of the latest call
    ind_curr,         \* its last frame row (curr)
    ind_ret,          \* the dict it returned
    final_decision_json, \* output/final_decision.json as the pipeline left it
    market_data_json, \* output/market_data.json as the pipeline left it
    dpc,              \* the dashboard's position in app.py:727-760
    shown,            \* what the dashboard has rendered so far, in order
    g_last,           \* calculate_options_greeks: the latest call, its clock reading and value
    g_prev,           \* the call before it
    exp_call,         \* find_nifty_expiry_dates: the call, its clock reading and value
    main_env,         \* main.run: OPENAI_API_KEY set, OPTITRADE_ALLOW_SIMULATED=1, stdin a tty
    main_out,         \* main.run: what the run did, in order: "kickoff", "exit1" (sys.exit(1))
    consents,         \* main.run: the prompts reached and the answer each got
    quote_data,       \* get_angel_quote / get_angel_historical_data: the broker's reply
    data_res,         \* the dict the tool returned
    crew,             \* the crew thread: "unstarted", "running", "finishing", "done"
    live_updates,     \* app.py:526
    last_update_count,
    new_updates,      \* the slice a poll took under updates_lock
    final_updates,    \* the slice the final drain took
    elapsed,
    result_container, \* [result, error]
    upc,              \* the UI thread's position in app.py:657-724
    completed_tasks_set,
    seen,             \* the updates the UI thread has taken from live_updates, in order
    timed_out,        \* the poll loop left through the timeout branch
    outcome           \* how the run was reported: "none", "error", "complete"

sessVars == <<_smart_api, _auth_token, _feed_token, _refresh_token, nHandles, nExch, allExchOk>>
authLocals == <<authRet, session_data, auth_result, pre>>
ltpLocals == <<ltpRet, ltp_data, ltp_res>>
appVars == <<angel_auth, angel_auth_time, now, nTicks, acq>>

obsVars == <<badGet, requests, nAuthCalls>>

chainLocals == <<expiry_date, spot_price, atm_strike, defined, target_dt, token_map,
                 market_data, option_chain, result, raised, batchReqs, resolved>>
dlVars == <<_instrument_master, dlRet, dl_res>>
chainVars == <<chainLocals, dlVars>>

simVars == <<sim_last, sim_prev>>
btVars == <<bt_args, bt_ret, bt_pnls>>
indVars == <<ind_args, ind_curr, ind_ret>>
dashVars == <<final_decision_json, market_data_json, dpc, shown>>
greekVars == <<g_last, g_prev>>
expVars == <<exp_call>>
mainVars == <<main_env, main_out, consents>>
dataVars == <<quote_data, data_res>>
pollVars == <<crew, live_updates, last_update_count, new_updates, final_updates, elapsed,
              result_container, upc, completed_tasks_set, seen, timed_out, outcome>>
extVars == <<greekVars, expVars, mainVars, dataVars, pollVars>>
calcVars == <<simVars, btVars, indVars, dashVars, extVars>>

\* everything the session, spot and option-chain tools work on
coreVars == <<creds, sessVars, obsVars, opsStarted, pc, authLocals, ltpLocals, appVars, chainVars>>

vars == <<coreVars, calcVars>>

\* ---------------------------------------------------------------- values
NoHandle == [id |-> 0, sess |-> 0, ok |-> FALSE]
NoResponse == [kind |-> "unset", exch |-> 0, ltp |-> 0]
NoResult == [status |-> "unset", error |-> "unset", ltp |-> 0]

\* Shapes of a SmartConnect reply: a dict with a true status and its data ("ok"),
\* a dict with a true status and no data ("okempty"), a dict with a false
\* status ("rejected"), a bare string, None, a list, or a raised exception.
ResponseKinds == {"ok", "okempty", "rejected", "str", "none", "list", "raise"}

Failed(err) == [status |-> "failed", error |-> err, ltp |-> 0]
Success == [status |-> "success", error |-> "none", ltp |-> 0]

\* tools.py:43-45
_is_valid_response(response) == response.kind \in {"ok", "okempty", "rejected"}

\* variant: a status key is present, whatever its value
StatusPresent(response) == response.kind \in {"ok", "okempty", "rejected"}

\* response.get("status") of a dict
StatusTrue(response) == response.kind \in {"ok", "okempty"}

\* The session cache of tools.py:26-29
SessionState == [handle |-> _smart_api, auth |-> _auth_token,
                 feed |-> _feed_token, refresh |-> _refresh_token]


\* ------------------------------------------------- authenticate_angel
\* tools.py:57-65: the credentials are read; a missing one returns failed, a
\* TOTP secret that pyotp cannot decode raises into the except of line 83.
auth_creds(t) ==
    /\ pc[t] = "a_creds"
    /\ pre' = [pre EXCEPT ![t] = SessionState]
    /\ IF creds = "missing"
         THEN /\ auth_result' = [auth_result EXCEPT ![t] = Failed("missing_credentials")]
              /\ pc' = [pc EXCEPT ![t] = authRet[t]]
         ELSE IF creds = "badtotp"
                THEN /\ auth_result' = [auth_result EXCEPT ![t] = Failed("exception")]
                     /\ pc' = [pc EXCEPT ![t] = authRet[t]]
                ELSE /\ auth_result' = [auth_result EXCEPT ![t] = NoResult]
                     /\ pc' = [pc EXCEPT ![t] = "a_connect"]
    /\ session_data' = [session_data EXCEPT ![t] = NoResponse]
    /\ nAuthCalls' = nAuthCalls + 1
    /\ UNCHANGED <<calcVars, creds, sessVars, badGet, requests, opsStarted, authRet, ltpLocals, appVars, chainVars>>

\* tools.py:66: _smart_api = SmartConnect(api_key=api_key)
auth_connect(t) ==
    /\ pc[t] = "a_connect"
    /\ nHandles' = nHandles + 1
    /\ _smart_api' = [id |-> nHandles + 1, sess |-> 0, ok |-> FALSE]
    /\ pc' = [pc EXCEPT ![t] = "a_login"]
    /\ UNCHANGED <<calcVars, creds, _auth_token, _feed_token, _refresh_token, nExch, allExchOk,
                   obsVars, opsStarted, authLocals, ltpLocals, appVars, chainVars>>

\* tools.py:68: session_data = _smart_api.generateSession(...), on the handle the
\* global names at the time of the call; a success logs that handle in.
auth_login(t) ==
    /\ pc[t] = "a_login"
    /\ \E r \in ResponseKinds :
        /\ nExch' = nExch + 1
        /\ allExchOk' = (allExchOk /\ r = "ok")
        /\ _smart_api' = IF r \in {"ok", "okempty"}
                           THEN [_smart_api EXCEPT !.sess = nExch + 1, !.ok = TRUE]
                           ELSE [_smart_api EXCEPT !.ok = FALSE]
        /\ IF r = "raise"
             THEN /\ auth_result' = [auth_result EXCEPT ![t] = Failed("exception")]
                  /\ session_data' = session_data
                  /\ pc' = [pc EXCEPT ![t] = authRet[t]]
             ELSE /\ session_data' = [session_data EXCEPT ![t] =
                                        [kind |-> r, exch |-> nExch + 1, ltp |-> 0]]
                  /\ auth_result' = auth_result
                  /\ pc' = [pc EXCEPT ![t] = "a_check"]
    /\ UNCHANGED <<calcVars, creds, _auth_token, _feed_token, _refresh_token, nHandles,
                   obsVars, opsStarted, authRet, pre, ltpLocals, appVars, chainVars>>

\* tools.py:71 and 78-81: the validity test, and the else branch, whose
\* session_data.get runs on whatever is not a str.
auth_check(t) ==
    /\ pc[t] = "a_check"
    /\ IF _is_valid_response(session_data[t]) /\ StatusTrue(session_data[t])
         THEN /\ pc' = [pc EXCEPT ![t] = "a_tok1"]
              /\ UNCHANGED <<auth_result, badGet>>
         ELSE /\ pc' = [pc EXCEPT ![t] = authRet[t]]
              /\ IF session_data[t].kind = "str" \/ _is_valid_response(session_data[t])
                   THEN /\ auth_result' = [auth_result EXCEPT ![t] = Failed("auth_failed")]
                        /\ badGet' = badGet
                   ELSE /\ auth_result' = [auth_result EXCEPT ![t] = Failed("exception")]
                        /\ badGet' = badGet \cup {"authenticate"}
    /\ UNCHANGED <<calcVars, creds, sessVars, requests, nAuthCalls, opsStarted, authRet, session_data, pre, ltpLocals, appVars, chainVars>>

\* data.get(key) of tools.py:72-75: None when the reply carries no data
TokenOf(response) == IF response.kind = "ok" THEN response.exch ELSE 0

\* tools.py:72-73
auth_tok1(t) ==
    /\ pc[t] = "a_tok1"
    /\ _auth_token' = TokenOf(session_data[t])
    /\ pc' = [pc EXCEPT ![t] = "a_tok2"]
    /\ UNCHANGED <<calcVars, creds, _smart_api, _feed_token, _refresh_token, nHandles, nExch, allExchOk,
                   obsVars, opsStarted, authLocals, ltpLocals, appVars, chainVars>>

\* tools.py:74
auth_tok2(t) ==
    /\ pc[t] = "a_tok2"
    /\ _feed_token' = TokenOf(session_data[t])
    /\ pc' = [pc EXCEPT ![t] = "a_tok3"]
    /\ UNCHANGED <<calcVars, creds, _smart_api, _auth_token, _refresh_token, nHandles, nExch, allExchOk,
                   obsVars, opsStarted, authLocals, ltpLocals, appVars, chainVars>>

\* tools.py:75-77
auth_tok3(t) ==
    /\ pc[t] = "a_tok3"
    /\ _refresh_token' = TokenOf(session_data[t])
    /\ auth_result' = [auth_result EXCEPT ![t] = Success]
    /\ pc' = [pc EXCEPT ![t] = authRet[t]]
    /\ UNCHANGED <<calcVars, creds, _smart_api, _auth_token, _feed_token, nHandles, nExch, allExchOk,
                   obsVars, opsStarted, authRet, session_data, pre, ltpLocals, appVars, chainVars>>

authenticate_angel(t) ==
    \/ auth_creds(t)
    \/ auth_connect(t)
    \/ auth_login(t)
    \/ auth_check(t)
    \/ auth_tok1(t)
    \/ auth_tok2(t)
    \/ auth_tok3(t)

AuthPcs == {"a_creds", "a_connect", "a_login", "a_check", "a_tok1", "a_tok2", "a_tok3"}


\* ------------------------------------------------------- get_angel_ltp
\* Spot values a reply carries (index points); 0 is what a reply without an
\* "ltp" field yields (data.get("ltp", 0)).
SpotValues == {0, 23990, 24025, 24075}

LtpResponses ==
    [kind : {"ok"}, exch : {0}, ltp : SpotValues]
        \cup [kind : ResponseKinds \ {"ok", "okempty", "raise"}, exch : {0}, ltp : {0}]

\* tools.py:158: the lazy login test of every tool
NeedsLogin == _smart_api.id = 0 \/ _auth_token = 0

\* tools.py:157-159
ltp_check(t) ==
    /\ pc[t] = "l_check"
    /\ IF NeedsLogin
         THEN /\ pc' = [pc EXCEPT ![t] = "a_creds"]
              /\ authRet' = [authRet EXCEPT ![t] = "l_authed"]
         ELSE /\ pc' = [pc EXCEPT ![t] = "l_call"]
              /\ authRet' = authRet
    /\ UNCHANGED <<calcVars, creds, sessVars, obsVars, opsStarted, session_data, auth_result, pre,
                   ltpLocals, appVars, chainVars>>

\* tools.py:160-161
ltp_authed(t) ==
    /\ pc[t] = "l_authed"
    /\ IF auth_result[t].status # "success"
         THEN /\ ltp_res' = [ltp_res EXCEPT ![t] = Failed("auth_failed")]
              /\ pc' = [pc EXCEPT ![t] = ltpRet[t]]
         ELSE /\ ltp_res' = ltp_res
              /\ pc' = [pc EXCEPT ![t] = "l_call"]
    /\ UNCHANGED <<calcVars, creds, sessVars, obsVars, opsStarted, authLocals, ltpRet, ltp_data, appVars, chainVars>>

\* tools.py:163: ltp_data = _smart_api.ltpData(...), on the handle the global
\* names; the client may raise (line 177).
ltp_call(t) ==
    /\ pc[t] = "l_call"
    /\ requests' = requests \cup {[tool |-> "ltpData", handle |-> _smart_api]}
    /\ \/ /\ ltp_res' = [ltp_res EXCEPT ![t] = Failed("exception")]
          /\ ltp_data' = ltp_data
          /\ pc' = [pc EXCEPT ![t] = ltpRet[t]]
       \/ \E r \in LtpResponses :
            /\ ltp_data' = [ltp_data EXCEPT ![t] = r]
            /\ ltp_res' = ltp_res
            /\ pc' = [pc EXCEPT ![t] = "l_parse"]
    /\ UNCHANGED <<calcVars, creds, sessVars, badGet, nAuthCalls, opsStarted, authLocals, ltpRet, appVars, chainVars>>

\* tools.py:166-175
ltp_parse(t) ==
    /\ pc[t] = "l_parse"
    /\ IF _is_valid_response(ltp_data[t]) /\ StatusTrue(ltp_data[t])
         THEN /\ ltp_res' = [ltp_res EXCEPT ![t] =
                               [status |-> "success", error |-> "none", ltp |-> ltp_data[t].ltp]]
              /\ badGet' = badGet
         ELSE IF ltp_data[t].kind = "str" \/ _is_valid_response(ltp_data[t])
                THEN /\ ltp_res' = [ltp_res EXCEPT ![t] = Failed("api_error")]
                     /\ badGet' = badGet
                ELSE /\ ltp_res' = [ltp_res EXCEPT ![t] = Failed("exception")]
                     /\ badGet' = badGet \cup {"get_angel_ltp"}
    /\ pc' = [pc EXCEPT ![t] = ltpRet[t]]
    /\ UNCHANGED <<calcVars, creds, sessVars, requests, nAuthCalls, opsStarted, authLocals, ltpRet, ltp_data, appVars, chainVars>>

get_angel_ltp(t) ==
    \/ ltp_check(t)
    \/ ltp_authed(t)
    \/ ltp_call(t)
    \/ ltp_parse(t)

\* A worker thread (a crew agent) invokes the spot tool.
CallLtp(t) ==
    /\ pc[t] = "idle"
    /\ opsStarted < MaxCalls
    /\ opsStarted' = opsStarted + 1
    /\ pc' = [pc EXCEPT ![t] = "l_check"]
    /\ ltpRet' = [ltpRet EXCEPT ![t] = "idle"]
    /\ ltp_res' = [ltp_res EXCEPT ![t] = NoResult]
    /\ ltp_data' = [ltp_data EXCEPT ![t] = NoResponse]
    /\ auth_result' = [auth_result EXCEPT ![t] = NoResult]
    /\ session_data' = [session_data EXCEPT ![t] = NoResponse]
    /\ UNCHANGED <<calcVars, creds, sessVars, obsVars, authRet, pre, appVars, chainVars>>


\* ------------------------------------------- the dashboard's login (app.py)
\* The TTL test with the boundary included (e >= t).
ShouldReauthenticateAtTtl ==
    \/ angel_auth.status = "absent"
    \/ angel_auth.status # "success"
    \/ (now - angel_auth_time) >= AUTH_TTL_SECONDS

\* app.py:384-389
_should_reauthenticate ==
    \/ angel_auth.status = "absent"
    \/ angel_auth.status # "success"
    \/ (now - angel_auth_time) > AUTH_TTL_SECONDS

\* app.py:391-393: a script run reaches the login block
app_rerun(t) ==
    /\ pc[t] \in {"idle", "p_done"}
    /\ opsStarted < MaxRuns
    /\ opsStarted' = opsStarted + 1
    /\ acq' = [auth |-> angel_auth, time |-> angel_auth_time, now |-> now,
               exch |-> nExch, calls |-> nAuthCalls, session |-> SessionState]
    /\ IF _should_reauthenticate
         THEN /\ pc' = [pc EXCEPT ![t] = "a_creds"]
              /\ authRet' = [authRet EXCEPT ![t] = "p_store"]
         ELSE /\ pc' = [pc EXCEPT ![t] = "p_done"]
              /\ authRet' = authRet
    /\ UNCHANGED <<calcVars, creds, sessVars, obsVars, session_data, auth_result, pre, ltpLocals,
                   angel_auth, angel_auth_time, now, nTicks, chainVars>>

\* app.py:370-372: Reset Session. st.session_state.clear() drops the cached
\* login and its time; st.rerun() ends the run before the login block and
\* leaves the next run, app_rerun, to the script runner.
app_reset(t) ==
    /\ pc[t] = "p_done"
    /\ angel_auth' = [status |-> "absent", error |-> "unset", ltp |-> 0]
    /\ angel_auth_time' = 0
    /\ UNCHANGED <<calcVars, creds, sessVars, obsVars, opsStarted, pc, authLocals, ltpLocals,
                   now, nTicks, acq, chainVars>>

\* app.py:394-395
app_store(t) ==
    /\ pc[t] = "p_store"
    /\ angel_auth' = auth_result[t]
    /\ angel_auth_time' = now
    /\ pc' = [pc EXCEPT ![t] = "p_done"]
    /\ UNCHANGED <<calcVars, creds, sessVars, obsVars, opsStarted, authLocals, ltpLocals, now, nTicks, acq, chainVars>>

\* time.time() advances between and during script runs
TickSteps == {1, AUTH_TTL_SECONDS}

Tick ==
    /\ nTicks < MaxTicks
    /\ nTicks' = nTicks + 1
    /\ \E d \in TickSteps : now' = now + d
    /\ UNCHANGED <<calcVars, creds, sessVars, obsVars, opsStarted, pc, authLocals, ltpLocals,
                   angel_auth, angel_auth_time, acq, chainVars>>

\* ------------------------------------------------ instrument master data
\* Records of the scrip master as the download delivers them: every field is
\* a string (token: a number), of whatever content.
Inst(tok, nm, seg, ty, exp, stk, sym) ==
    [token |-> tok, name |-> nm, exch_seg |-> seg, instrumenttype |-> ty,
     expiry |-> exp, strike |-> stk, symbol |-> sym]

Universe ==
    << Inst(101, "NIFTY", "NFO", "OPTIDX", "28NOV2024", "2400000.000000", "NIFTY28NOV2424000CE"),
       Inst(102, "Nifty", "NFO", "OPTIDX", "28Nov2024", "2400000.000000", "NIFTY28NOV2424000PE"),
       Inst(103, "NIFTY", "NFO", "OPTIDX", "28nov2024", "2350000.000000", "NIFTY28NOV2423500CE"),
       Inst(104, "NIFTY", "NFO", "OPTIDX", "28NOV2024", "24550.000000", "NIFTY28NOV2424550PE"),
       Inst(105, "NIFTY", "NFO", "OPTIDX", "05DEC2024", "2400000.000000", "NIFTY05DEC2424000CE"),
       Inst(106, "NIFTY", "NFO", "FUTIDX", "28NOV2024", "2400000.000000", "NIFTY28NOV24FUT"),
       Inst(107, "FINNIFTY", "NFO", "OPTIDX", "28NOV2024", "2400000.000000", "FINNIFTY28NOV2424000CE"),
       Inst(108, "SENSEX", "BFO", "OPTIDX", "28NOV2024", "2400000.000000", "SENSEX28NOV2424000CE"),
       Inst(109, "NIFTY", "NFO", "OPTIDX", "2024-11-28", "2400000.000000", "NIFTY28NOV2424000CE"),
       Inst(110, "NIFTY", "NFO", "OPTIDX", "28NOV2024", "abc", "NIFTY28NOV24XCE"),
       Inst(111, "NIFTY", "NFO", "OPTIDX", "28NOV2024", "2460000.000000", "NIFTY28NOV2424600PE"),
       Inst(112, "NIFTY", "BSE", "OPTIDX", "28NOV2024", "2400000.000000", "NIFTY28NOV2424000CE"),
       Inst(113, "NIFTY", "NFO", "OPTIDX", "28NOV2024", "2450050.000000", "NIFTY28NOV2424500.5CE") >>

\* str.upper() on the names that occur
Upper(str) == IF str = "Nifty" THEN "NIFTY" ELSE str

\* 'NIFTY' in text
ContainsNIFTY(text) == text \in {"NIFTY", "FINNIFTY"}

\* "CE" in symbol
ContainsCE(symbol) ==
    symbol \in {"NIFTY28NOV2424000CE", "NIFTY28NOV2423500CE", "NIFTY05DEC2424000CE",
                "FINNIFTY28NOV2424000CE", "SENSEX28NOV2424000CE", "NIFTY28NOV24XCE",
                "NIFTY28NOV2424500.5CE"}

\* str.title() on the expiry strings that occur
Title(str) ==
    CASE str \in {"28NOV2024", "28Nov2024", "28nov2024"} -> "28Nov2024"
      [] str \in {"05DEC2024", "05Dec2024"} -> "05Dec2024"
      [] OTHER -> str

NoDate == <<0, 0, 0>>

\* datetime.strptime(str, "%d%b%Y").date(); NoDate stands for ValueError
\* (%b matches the month name in any letter case)
strptime_dby(str) ==
    CASE str \in {"28NOV2024", "28Nov2024", "28nov2024"} -> <<2024, 11, 28>>
      [] str \in {"05DEC2024", "05Dec2024"} -> <<2024, 12, 5>>
      [] OTHER -> NoDate

\* datetime.strptime(str, "%Y-%m-%d").date(); NoDate stands for ValueError
strptime_ymd(str) ==
    CASE str = "2024-11-28" -> <<2024, 11, 28>>
      [] str = "2024-12-05" -> <<2024, 12, 5>>
      [] OTHER -> NoDate

\* float(text); -1 stands for ValueError
float(text) ==
    CASE text = "2400000.000000" -> 2400000
      [] text = "2350000.000000" -> 2350000
      [] text = "2460000.000000" -> 2460000
      [] text = "2450050.000000" -> 2450050
      [] text = "24550.000000" -> 24550
      [] text = "0" -> 0
      [] OTHER -> -1

\* The expiry strings a caller passes to the option-chain tool
ExpiryArgs == {"2024-11-28", "2024-12-05", "28-11-2024"}

\* tools.py:108-112: what download_instrument_master_json keeps
KeepNifty(instruments) ==
    SelectSeq(instruments, LAMBDA inst :
        inst.exch_seg \in {"NSE", "NFO"} /\ ContainsNIFTY(Upper(inst.name)))

\* Instrument lists the download URL may deliver
RawLists ==
    { Universe,
      SubSeq(Universe, 1, 4),
      SubSeq(Universe, 5, 10),
      <<>> }

\* round(x / 50) * 50 for an integer x >= 0: Python rounds halves to even
RoundTo50(x) ==
    LET q == x \div 50
        r == x % 50
    IN  IF r < 25 THEN q * 50
        ELSE IF r > 25 THEN (q + 1) * 50
        ELSE IF q % 2 = 0 THEN q * 50 ELSE (q + 1) * 50

\* Floats that are no integers are exact quotients n / d with d > 0, in
\* lowest terms.
Abs(x) == IF x < 0 THEN -x ELSE x

RECURSIVE GCD(_, _)
GCD(a, b) == IF b = 0 THEN a ELSE GCD(b, a % b)

Norm(n, d) == LET g == GCD(Abs(n), d) IN [n |-> n \div g, d |-> d \div g]
RInt(x) == [n |-> x, d |-> 1]
RScale(k, a) == Norm(k * a.n, a.d)
RDivInt(a, k) == Norm(a.n, a.d * k)
RAdd(a, b) ==
    LET L == (a.d \div GCD(a.d, b.d)) * b.d
    IN  Norm(a.n * (L \div a.d) + b.n * (L \div b.d), L)
RSub(a, b) == RAdd(a, RScale(-1, b))
RLess(a, b) ==
    LET L == (a.d \div GCD(a.d, b.d)) * b.d
    IN  a.n * (L \div a.d) < b.n * (L \div b.d)
\* a / b for b > 0
RDiv(a, b) == Norm(a.n * b.d, a.d * b.n)
RLeq(a, b) == ~RLess(b, a)

\* The strike as the text gives it.
UnscaledStrike(strike) == RInt(strike)

\* tools.py:288: strikes above 50000 are taken to be in hundredths; the
\* division is a float's
ScaleStrike(strike) == IF strike > 50000 THEN Norm(strike, 100) ELSE RInt(strike)

\* tools.py:284-294, one instrument: its entry of token_map, or none
\* (filtered out, or skipped by the except of line 294).
Matches(inst, dt, min_s, max_s) ==
    /\ ~(inst.instrumenttype # "OPTIDX" \/ ~ContainsNIFTY(Upper(inst.name)))
    /\ strptime_dby(Title(inst.expiry)) # NoDate
    /\ strptime_dby(Title(inst.expiry)) = dt
    /\ float(inst.strike) # -1
    /\ RLeq(RInt(min_s), ScaleStrike(float(inst.strike)))
    /\ RLeq(ScaleStrike(float(inst.strike)), RInt(max_s))

Entry(inst) ==
    [strike |-> ScaleStrike(float(inst.strike)), symbol |-> inst.symbol,
     type |-> IF ContainsCE(inst.symbol) THEN "CE" ELSE "PE"]

\* tools.py:281-294: the loop over the master; a later record with the same
\* token replaces an earlier one.
RECURSIVE FilterTokens(_, _, _, _, _)
FilterTokens(master, i, dt, min_s, max_s) ==
    IF i = 0 THEN <<>>
    ELSE LET rest == FilterTokens(master, i - 1, dt, min_s, max_s)
             inst == master[i]
         IN  IF Matches(inst, dt, min_s, max_s)
               THEN [k \in (DOMAIN rest) \cup {inst.token} |->
                        IF k = inst.token THEN Entry(inst) ELSE rest[k]]
               ELSE rest

\* A ladder that stops one strike short: range(-10, 10).
ShortLadder(spot, atm, expiry) ==
    [status |-> "success", spot_price |-> spot, atm_strike |-> atm,
     option_chain |->
        [k \in 1..40 |->
            [strike |-> atm + (((k - 1) \div 2) - 10) * 50,
             type |-> IF k % 2 = 1 THEN "CE" ELSE "PE",
             last_price |-> 100, volume |-> 1000, oi |-> 50000, iv |-> 18]],
     expiry_date |-> expiry, data_source |-> "simulated"]

\* tools.py:338-350; iv is in hundredths (0.18)
_generate_simulated_option_chain(spot, atm, expiry) ==
    [status |-> "success", spot_price |-> spot, atm_strike |-> atm,
     option_chain |->
        [k \in 1..42 |->
            [strike |-> atm + (((k - 1) \div 2) - 10) * 50,
             type |-> IF k % 2 = 1 THEN "CE" ELSE "PE",
             last_price |-> 100, volume |-> 1000, oi |-> 50000, iv |-> 18]],
     expiry_date |-> expiry, data_source |-> "simulated"]


\* ------------------------------------- download_instrument_master_json
\* tools.py:96-98
dl_check(t) ==
    /\ pc[t] = "d_check"
    /\ IF NeedsLogin
         THEN /\ pc' = [pc EXCEPT ![t] = "a_creds"]
              /\ authRet' = [authRet EXCEPT ![t] = "d_authed"]
         ELSE /\ pc' = [pc EXCEPT ![t] = "d_fetch"]
              /\ authRet' = authRet
    /\ UNCHANGED <<calcVars, creds, sessVars, obsVars, opsStarted, session_data, auth_result, pre,
                   ltpLocals, appVars, chainVars>>

\* tools.py:99-100
dl_authed(t) ==
    /\ pc[t] = "d_authed"
    /\ IF auth_result[t].status # "success"
         THEN /\ dl_res' = "failed"
              /\ pc' = [pc EXCEPT ![t] = dlRet]
         ELSE /\ dl_res' = dl_res
              /\ pc' = [pc EXCEPT ![t] = "d_fetch"]
    /\ UNCHANGED <<calcVars, creds, sessVars, obsVars, opsStarted, authLocals, ltpLocals, appVars,
                   chainLocals, _instrument_master, dlRet>>

\* tools.py:102-121: the HTTP fetch: a 200 with a list, another status, or an
\* exception (network, JSON), which leaves an empty master and reports success.
dl_fetch(t) ==
    /\ pc[t] = "d_fetch"
    /\ \/ \E instruments \in RawLists :
            /\ _instrument_master' = [loaded |-> TRUE, items |-> KeepNifty(instruments)]
            /\ dl_res' = "success"
       \/ /\ _instrument_master' = _instrument_master
          /\ dl_res' = "failed"
       \/ /\ _instrument_master' = [loaded |-> TRUE, items |-> <<>>]
          /\ dl_res' = "success"
    /\ pc' = [pc EXCEPT ![t] = dlRet]
    /\ UNCHANGED <<calcVars, creds, sessVars, obsVars, opsStarted, authLocals, ltpLocals, appVars,
                   chainLocals, dlRet>>

download_instrument_master_json(t) ==
    \/ dl_check(t)
    \/ dl_authed(t)
    \/ dl_fetch(t)

\* ------------------------------------------------ get_angel_option_chain
NoSnapshot ==
    [status |-> "unset", spot_price |-> 0, atm_strike |-> 0, option_chain |-> <<>>,
     expiry_date |-> "", data_source |-> "unset"]

NoMarketData == [kind |-> "unset", fetched |-> <<>>]

\* An exception that leaves the try block with no handler.
ExceptPropagates == [raised |-> TRUE, result |-> NoSnapshot]

\* tools.py:331-336: the except of the tool
ExceptOutcome ==
    [raised |-> FALSE,
     result |-> _generate_simulated_option_chain(
                    IF "spot_price" \in defined THEN spot_price ELSE 24000,
                    IF "atm_strike" \in defined THEN atm_strike ELSE 24000,
                    expiry_date)]

\* One request per instrument.
RequestPerToken(tokens) == [i \in 1..Cardinality(tokens) |-> {CHOOSE k \in tokens :
                               Cardinality({j \in tokens : j < k}) = i - 1}]

\* tools.py:300-301: the requests that fetch the last prices of `tokens`
BatchRequests(tokens) == << tokens >>

RECURSIVE SortedSeq(_)
SortedSeq(S) ==
    IF S = {} THEN <<>>
    ELSE LET k == CHOOSE x \in S : \A y \in S : x <= y
         IN  <<k>> \o SortedSeq(S \ {k})

\* The token of an instrument that was not asked for
ForeignToken == 999

\* Replies of getMarketData(mode="LTP") to a request for `tokens`: a dict with
\* a true status and the items fetched (any of those asked for, and possibly a
\* foreign one), or a reply of another shape.
BatchResponses(tokens) ==
    { [kind |-> "ok", fetched |-> SortedSeq(F)] : F \in SUBSET (tokens \cup {ForeignToken}) }
        \cup { [kind |-> k, fetched |-> <<>>] : k \in {"okempty", "rejected", "str", "none", "list"} }

\* float(item.get("ltp", 0)) of a fetched item
ItemLtp(tok) == 150

\* tools.py:306-316
Assemble(md, tmap) ==
    IF _is_valid_response(md) /\ StatusTrue(md)
      THEN LET known == SelectSeq(md.fetched, LAMBDA k : k \in DOMAIN tmap)
           IN  [i \in 1..Len(known) |->
                   [strike |-> tmap[known[i]].strike, type |-> tmap[known[i]].type,
                    last_price |-> ItemLtp(known[i]), volume |-> 0, oi |-> 0,
                    symbol |-> tmap[known[i]].symbol]]
      ELSE <<>>

CallChain(t) ==
    /\ pc[t] \in {"idle", "c_done"}
    /\ opsStarted < MaxChains
    /\ opsStarted' = opsStarted + 1
    /\ \E e \in ExpiryArgs : expiry_date' = e
    /\ pc' = [pc EXCEPT ![t] = "c_check"]
    /\ spot_price' = 0
    /\ atm_strike' = 0
    /\ defined' = {}
    /\ target_dt' = NoDate
    /\ token_map' = <<>>
    /\ market_data' = NoMarketData
    /\ option_chain' = <<>>
    /\ result' = NoSnapshot
    /\ raised' = FALSE
    /\ batchReqs' = <<>>
    /\ resolved' = FALSE
    /\ UNCHANGED <<calcVars, creds, sessVars, obsVars, authLocals, ltpLocals, appVars, dlVars>>

\* tools.py:257-259: the result of authenticate is not looked at
oc_check(t) ==
    /\ pc[t] = "c_check"
    /\ IF NeedsLogin
         THEN /\ pc' = [pc EXCEPT ![t] = "a_creds"]
              /\ authRet' = [authRet EXCEPT ![t] = "c_ltp"]
         ELSE /\ pc' = [pc EXCEPT ![t] = "c_ltp"]
              /\ authRet' = authRet
    /\ UNCHANGED <<calcVars, creds, sessVars, obsVars, opsStarted, session_data, auth_result, pre,
                   ltpLocals, appVars, chainVars>>

\* tools.py:262: ltp_res = get_angel_ltp.func()
oc_ltp(t) ==
    /\ pc[t] = "c_ltp"
    /\ pc' = [pc EXCEPT ![t] = "l_check"]
    /\ ltpRet' = [ltpRet EXCEPT ![t] = "c_spot"]
    /\ ltp_res' = [ltp_res EXCEPT ![t] = NoResult]
    /\ ltp_data' = [ltp_data EXCEPT ![t] = NoResponse]
    /\ UNCHANGED <<calcVars, creds, sessVars, obsVars, opsStarted, authLocals, appVars, chainVars>>

\* tools.py:263-268
oc_spot(t) ==
    /\ pc[t] = "c_spot"
    /\ IF ltp_res[t].status # "success"
         THEN /\ result' = _generate_simulated_option_chain(24000, 24000, expiry_date)
              /\ pc' = [pc EXCEPT ![t] = "c_done"]
              /\ UNCHANGED <<spot_price, atm_strike, defined>>
         ELSE /\ spot_price' = ltp_res[t].ltp
              /\ atm_strike' = RoundTo50(ltp_res[t].ltp)
              /\ defined' = {"spot_price", "atm_strike"}
              /\ pc' = [pc EXCEPT ![t] = "c_master"]
              /\ result' = result
    /\ UNCHANGED <<calcVars, creds, sessVars, obsVars, opsStarted, authLocals, ltpLocals, appVars,
                   expiry_date, target_dt, token_map, market_data, option_chain, raised,
                   batchReqs, resolved, dlVars>>

\* tools.py:270-271
oc_master(t) ==
    /\ pc[t] = "c_master"
    /\ IF ~_instrument_master.loaded \/ _instrument_master.items = <<>>
         THEN /\ pc' = [pc EXCEPT ![t] = "d_check"]
              /\ dlRet' = "c_parse"
         ELSE /\ pc' = [pc EXCEPT ![t] = "c_parse"]
              /\ dlRet' = dlRet
    /\ UNCHANGED <<calcVars, creds, sessVars, obsVars, opsStarted, authLocals, ltpLocals, appVars,
                   chainLocals, _instrument_master, dl_res>>

\* tools.py:273-277
oc_parse(t) ==
    /\ pc[t] = "c_parse"
    /\ target_dt' = strptime_ymd(expiry_date)
    /\ IF strptime_ymd(expiry_date) = NoDate
         THEN /\ result' = _generate_simulated_option_chain(spot_price, atm_strike, expiry_date)
              /\ pc' = [pc EXCEPT ![t] = "c_done"]
         ELSE /\ result' = result
              /\ pc' = [pc EXCEPT ![t] = "c_filter"]
    /\ UNCHANGED <<calcVars, creds, sessVars, obsVars, opsStarted, authLocals, ltpLocals, appVars,
                   expiry_date, spot_price, atm_strike, defined, token_map, market_data,
                   option_chain, raised, batchReqs, resolved, dlVars>>

\* tools.py:279-297: the filter loop; iterating a master that is None raises
\* TypeError into the except of line 331.
oc_filter(t) ==
    /\ pc[t] = "c_filter"
    /\ IF ~_instrument_master.loaded
         THEN /\ result' = ExceptOutcome.result
              /\ raised' = ExceptOutcome.raised
              /\ pc' = [pc EXCEPT ![t] = "c_done"]
              /\ UNCHANGED <<token_map, resolved>>
         ELSE LET tmap == FilterTokens(_instrument_master.items, Len(_instrument_master.items),
                                       target_dt, atm_strike - 500, atm_strike + 500)
              IN  /\ token_map' = tmap
                  /\ resolved' = TRUE
                  /\ raised' = raised
                  /\ IF DOMAIN tmap = {}
                       THEN /\ result' = _generate_simulated_option_chain(
                                             spot_price, atm_strike, expiry_date)
                            /\ pc' = [pc EXCEPT ![t] = "c_done"]
                       ELSE /\ result' = result
                            /\ pc' = [pc EXCEPT ![t] = "c_batch"]
    /\ UNCHANGED <<calcVars, creds, sessVars, obsVars, opsStarted, authLocals, ltpLocals, appVars,
                   expiry_date, spot_price, atm_strike, defined, target_dt, market_data,
                   option_chain, batchReqs, dlVars>>

\* tools.py:299-301: the price request; the client may raise (line 331).
oc_batch(t) ==
    /\ pc[t] = "c_batch"
    /\ batchReqs' = batchReqs \o BatchRequests(DOMAIN token_map)
    /\ requests' = requests \cup {[tool |-> "getMarketData", handle |-> _smart_api]}
    /\ \/ /\ market_data' = [kind |-> "raise", fetched |-> <<>>]
          /\ result' = ExceptOutcome.result
          /\ raised' = ExceptOutcome.raised
          /\ pc' = [pc EXCEPT ![t] = "c_done"]
       \/ \E md \in BatchResponses(DOMAIN token_map) :
            /\ market_data' = md
            /\ UNCHANGED <<result, raised>>
            /\ pc' = [pc EXCEPT ![t] = "c_assemble"]
    /\ UNCHANGED <<calcVars, creds, sessVars, badGet, nAuthCalls, opsStarted, authLocals, ltpLocals,
                   appVars, expiry_date, spot_price, atm_strike, defined, target_dt,
                   token_map, option_chain, resolved, dlVars>>

\* A chain is never taken to be empty.
NeverEmpty(chain) == FALSE

\* tools.py:318: not option_chain
NoLegs(chain) == Len(chain) = 0

\* tools.py:303-329
oc_assemble(t) ==
    /\ pc[t] = "c_assemble"
    /\ option_chain' = Assemble(market_data, token_map)
    /\ result' = IF NoLegs(Assemble(market_data, token_map))
                   THEN _generate_simulated_option_chain(spot_price, atm_strike, expiry_date)
                   ELSE [status |-> "success", spot_price |-> spot_price,
                         atm_strike |-> atm_strike,
                         option_chain |-> Assemble(market_data, token_map),
                         expiry_date |-> expiry_date, data_source |-> "live"]
    /\ pc' = [pc EXCEPT ![t] = "c_done"]
    /\ UNCHANGED <<calcVars, creds, sessVars, obsVars, opsStarted, authLocals, ltpLocals, appVars,
                   expiry_date, spot_price, atm_strike, defined, target_dt, token_map,
                   market_data, raised, batchReqs, resolved, dlVars>>

get_angel_option_chain(t) ==
    \/ oc_check(t)
    \/ oc_ltp(t)
    \/ oc_spot(t)
    \/ oc_master(t)
    \/ oc_parse(t)
    \/ oc_filter(t)
    \/ oc_batch(t)
    \/ oc_assemble(t)

\* ---------------------------------- _generate_simulated_option_chain, called
\* No call yet.
NoSim == [called |-> FALSE, spot |-> 0, atm |-> 0, expiry |-> "", ret |-> NoSnapshot]

\* tools.py:265, 268: the ATM strikes the tool passes on
AtmArgs == {24000} \cup {RoundTo50(s) : s \in SpotValues}

\* tools.py:338-350: one call, after the call before it
CallSimulated ==
    \E s \in SpotValues, a \in AtmArgs, e \in ExpiryArgs :
        /\ sim_prev' = sim_last
        /\ sim_last' = [called |-> TRUE, spot |-> s, atm |-> a, expiry |-> e,
                        ret |-> _generate_simulated_option_chain(s, a, e)]
        /\ UNCHANGED <<extVars, coreVars, btVars, indVars, dashVars>>

\* ------------------------------------------------ backtest_option_strategy
\* A historical_data argument: None, or a list of bars given by their closes
NoSeries == [none |-> TRUE, bars |-> <<>>]
Series(bars) == [none |-> FALSE, bars |-> bars]

NoBtArgs == [strategy_type |-> "", historical_data |-> NoSeries, strike |-> 0, premium |-> 0]
\* win_rate is the quotient n / d
NoBtResult == [status |-> "unset", win_rate |-> [n |-> 0, d |-> 1], total_trades |-> 0]

StrategyKinds == {"long_call", "long_put", "short_call", "short_put", "straddle"}
BtCloses == {90, 100, 110, 130}
BtStrikes == {105}
BtPremiums == {5, 15}

\* every list of at most n bars
BarSeqs(n) == UNION {[1..k -> BtCloses] : k \in 0..n}
\* a longer list of n bars
LongBars(n) == [i \in 1..n |-> IF i % 2 = 1 THEN 100 ELSE 130]

BtSeries ==
    {NoSeries} \cup {Series(b) : b \in BarSeqs(MaxBtBars) \cup {LongBars(n) : n \in 9..11}}

\* `not historical_data` is false
Truthy(historical_data) == ~historical_data.none /\ Len(historical_data.bars) > 0

max(a, b) == IF a >= b THEN a ELSE b

\* tools.py:458-459: the pnl of the trade that exits at `exit`
Pnl(strategy_type, exit, strike, premium) ==
    IF strategy_type = "long_call" THEN max(0, exit - strike) - premium ELSE 0

\* A break-even trade counted as won.
IsWinOrFlat(pnl) == pnl >= 0

\* tools.py:460
IsWin(pnl) == pnl > 0

\* tools.py:457-459: pnl in each round of the loop
Pnls(strategy_type, closes, strike, premium) ==
    [i \in 1..(Len(closes) - 1) |-> Pnl(strategy_type, closes[i + 1], strike, premium)]

\* tools.py:456-460
Wins(pnls) == Cardinality({i \in 1..Len(pnls) : IsWin(pnls[i])})

\* tools.py:449-466, one call
backtest_option_strategy ==
    \E st \in StrategyKinds, hd \in BtSeries, k \in BtStrikes, p \in BtPremiums :
        /\ bt_ret.status = "unset"
        /\ bt_args' = [strategy_type |-> st, historical_data |-> hd, strike |-> k, premium |-> p]
        /\ IF ~Truthy(hd)
             THEN /\ bt_ret' = [NoBtResult EXCEPT !.status = "failed"]
                  /\ bt_pnls' = <<>>
             ELSE LET closes == hd.bars
                      pnls == Pnls(st, closes, k, p)
                  IN  /\ bt_pnls' = pnls
                      /\ bt_ret' = [status |-> "success",
                                    win_rate |-> [n |-> Wins(pnls), d |-> Len(closes)],
                                    total_trades |-> Len(closes)]
        /\ UNCHANGED <<extVars, coreVars, simVars, indVars, dashVars>>

\* ------------------------------------------ calculate_technical_indicators
\* Frame values are exact quotients n / d with d > 0, in lowest terms.
\* A float that is nan, or the number v
NaN == [nan |-> TRUE, v |-> RInt(0)]
Num(v) == [nan |-> FALSE, v |-> v]
\* comparisons with nan are false
Lt(x, k) == ~x.nan /\ RLess(x.v, RInt(k))
Gt(x, k) == ~x.nan /\ RLess(RInt(k), x.v)

NoRow == [ema_5 |-> RInt(0), ema_20 |-> RInt(0), rsi |-> NaN,
          macd |-> RInt(0), macd_signal |-> RInt(0)]
\* confidence is in hundredths
NoIndicators == [status |-> "unset", error |-> "", signal |-> "", confidence |-> 0, trend |-> ""]

\* The series offered: n bars that close at BaseClose but for the last two,
\* which close d1 and d2 away from it.
BaseClose == 2000
Moves == {-1749, -1000, -100, 0, 100, 1000, 1749}
TailBars(n, d1, d2) ==
    [i \in 1..n |-> BaseClose + (IF i = n THEN d2 ELSE IF i = n - 1 THEN d1 ELSE 0)]
IndSeries ==
    {NoSeries} \cup {Series(TailBars(n, d1, d2)) : n \in 0..MaxBars, d1 \in Moves, d2 \in Moves}

\* tools.py:360
MinBars == 20

\* The length test one bar too low.
TooShortOffByOne(historical_data) ==
    ~Truthy(historical_data) \/ Len(historical_data.bars) < MinBars - 1

\* tools.py:360
TooShort(historical_data) ==
    ~Truthy(historical_data) \/ Len(historical_data.bars) < MinBars

\* Series.ewm(span=span, adjust=False).mean(): alpha = 2 / (span + 1)
EwmStep(w, x, span) == RDivInt(RAdd(RScale(span - 1, w), RScale(2, x)), span + 1)

RECURSIVE EwmFrom(_, _, _, _)
EwmFrom(xs, span, i, acc) ==
    IF i > Len(xs) THEN acc
    ELSE EwmFrom(xs, span, i + 1,
                 Append(acc, IF i = 1 THEN xs[1] ELSE EwmStep(acc[i - 1], xs[i], span)))

\* tools.py:370, 380-381, 383
Ewm(xs, span) == EwmFrom(xs, span, 1, <<>>)

\* tools.py:373: close.diff(), whose first row is nan
Delta(closes, i) == IF i = 1 THEN NaN ELSE Num(RInt(closes[i] - closes[i - 1]))

RECURSIVE Sum(_, _, _)
Sum(f, lo, hi) == IF lo > hi THEN 0 ELSE f[hi] + Sum(f, lo, hi - 1)

\* tools.py:374: delta.where(delta > 0, 0).rolling(14).mean(), last row
Gain(closes) ==
    LET n == Len(closes)
        g == [i \in 1..n |-> IF Gt(Delta(closes, i), 0) THEN Delta(closes, i).v.n ELSE 0]
    IN  RDivInt(RInt(Sum(g, n - 13, n)), 14)

\* tools.py:375: (-delta.where(delta < 0, 0)).rolling(14).mean(), last row
Loss(closes) ==
    LET n == Len(closes)
        l == [i \in 1..n |-> IF Lt(Delta(closes, i), 0) THEN -Delta(closes, i).v.n ELSE 0]
    IN  RDivInt(RInt(Sum(l, n - 13, n)), 14)

\* tools.py:376-377: 0 / 0 is nan, gain / 0 is inf and gives 100
Rsi(gain, loss) ==
    IF loss.n = 0
      THEN IF gain.n = 0 THEN NaN ELSE Num(RInt(100))
      ELSE LET rs == RDiv(gain, loss)
           IN  Num(RSub(RInt(100), RDiv(RInt(100), RAdd(RInt(1), rs))))

\* tools.py:363-396: the last row of the frame
Curr(closes) ==
    LET n == Len(closes)
        xs == [i \in 1..n |-> RInt(closes[i])]
        exp1 == Ewm(xs, 12)
        exp2 == Ewm(xs, 26)
        macd == [i \in 1..n |-> RSub(exp1[i], exp2[i])]
    IN  [ema_5 |-> Ewm(xs, 5)[n], ema_20 |-> Ewm(xs, 20)[n],
         rsi |-> Rsi(Gain(closes), Loss(closes)),
         macd |-> macd[n], macd_signal |-> Ewm(macd, 9)[n]]

\* tools.py:399
Trend(curr) == IF RLess(curr.ema_20, curr.ema_5) THEN "bullish" ELSE "bearish"

\* tools.py:400-403
Signal(trend, curr) ==
    IF trend = "bullish" /\ Lt(curr.rsi, 70) THEN "bullish"
    ELSE IF trend = "bearish" /\ Gt(curr.rsi, 30) THEN "bearish"
    ELSE "neutral"

\* tools.py:356-415, one call on bars whose fields are numbers
calculate_technical_indicators ==
    \E hd \in IndSeries :
        /\ ind_ret.status = "unset"
        /\ ind_args' = hd
        /\ IF TooShort(hd)
             THEN /\ ind_curr' = NoRow
                  /\ ind_ret' = [NoIndicators EXCEPT !.status = "failed",
                                                      !.error = "insufficient_data"]
             ELSE LET curr == Curr(hd.bars)
                      trend == Trend(curr)
                  IN  /\ ind_curr' = curr
                      /\ ind_ret' = [status |-> "success", error |-> "",
                                     signal |-> Signal(trend, curr), confidence |-> 75,
                                     trend |-> trend]
        /\ UNCHANGED <<extVars, coreVars, simVars, btVars, dashVars>>

\* --------------------------------------------------- the dashboard, app.py
\* An output file: whether it exists, whether its bytes are UTF-8, whether it
\* is JSON, and the JSON value (a dict with the keys read below, or some
\* other value: a list, a string, a number).
JsonDict(src, warn, dec) ==
    [isdict |-> TRUE, data_source |-> src, simulation_warning |-> warn, final_decision |-> dec]
JsonList == [isdict |-> FALSE, kind |-> "list"]
JsonText == [isdict |-> FALSE, kind |-> "str"]
File(exists, parses, json) ==
    [exists |-> exists, decodes |-> TRUE, parses |-> parses, json |-> json]
NoFile == File(FALSE, FALSE, JsonList)
\* text that is no JSON, or a file that cannot be opened or read (OSError)
BrokenFile == File(TRUE, FALSE, JsonList)
\* bytes that are no UTF-8
UndecodableFile == [BrokenFile EXCEPT !.decodes = FALSE]

\* The loader returns a value, or an exception leaves it.
Returns(value) == [raised |-> FALSE, value |-> value]
Raises == [raised |-> TRUE, value |-> [isdict |-> FALSE, kind |-> "none"]]

\* what the pipeline can leave in output/market_data.json
MarketFiles ==
    {NoFile, BrokenFile, UndecodableFile, File(TRUE, TRUE, JsonList), File(TRUE, TRUE, JsonText)} \cup
    {File(TRUE, TRUE, JsonDict(src, warn, "absent")) :
        src \in {"absent", "live", "simulated"}, warn \in {"absent", "true", "false"}}

\* what it can leave in output/final_decision.json
DecisionFiles ==
    {NoFile, BrokenFile, UndecodableFile, File(TRUE, TRUE, JsonList), File(TRUE, TRUE, JsonText)} \cup
    {File(TRUE, TRUE, JsonDict("absent", "absent", dec)) : dec \in {"absent", "CALL", "PUT", "HOLD"}}

\* app.py:297-304: a dict is shown with the loader's marker keys (FALSE: the
\* key is not there), any other JSON value is returned as it is;
\* UnicodeDecodeError, which the except of line 303 does not name, leaves the
\* loader
_load_json_output(file) ==
    IF ~file.exists
      THEN Returns(JsonDict("absent", "absent", "absent")
                       @@ [_missing |-> TRUE, _load_error |-> FALSE])
    ELSE IF ~file.decodes
      THEN Raises
    ELSE IF ~file.parses
      THEN Returns(JsonDict("absent", "absent", "absent")
                       @@ [_missing |-> FALSE, _load_error |-> TRUE])
    ELSE IF file.json.isdict
      THEN Returns(file.json @@ [_missing |-> FALSE, _load_error |-> FALSE])
    ELSE Returns(file.json)

\* Only the warning key looked at.
HasWarningKey(market) == market.simulation_warning = "true"

\* app.py:734
IsSimulated(market) ==
    market.simulation_warning = "true" \/ market.data_source = "simulated"

\* app.py:721-724: the pipeline has ended without an error and left its files
dash_open ==
    /\ dpc \in {"idle", "done"}
    /\ \E d \in DecisionFiles, m \in MarketFiles :
          /\ final_decision_json' = d
          /\ market_data_json' = m
    /\ shown' = <<>>
    /\ dpc' = "decision"
    /\ UNCHANGED <<extVars, coreVars, simVars, btVars, indVars>>

\* app.py:727-731; an exception that leaves the loader, and .get on a value
\* that is no dict, end the script run
dash_decision ==
    /\ dpc = "decision"
    /\ LET loaded == _load_json_output(final_decision_json)
           decision_data == loaded.value
       IN  IF loaded.raised \/ ~decision_data.isdict
             THEN /\ shown' = Append(shown, "exception")
                  /\ dpc' = "done"
             ELSE /\ shown' = IF decision_data._missing
                                 THEN Append(shown, "decision_missing")
                               ELSE IF decision_data._load_error
                                 THEN Append(shown, "decision_unreadable")
                               ELSE shown
                  /\ dpc' = "market"
    /\ UNCHANGED <<extVars, coreVars, simVars, btVars, indVars, final_decision_json, market_data_json>>

\* app.py:733-738
dash_market ==
    /\ dpc = "market"
    /\ LET loaded == _load_json_output(market_data_json)
           market == loaded.value
       IN  IF loaded.raised \/ ~market.isdict
             THEN /\ shown' = Append(shown, "exception")
                  /\ dpc' = "done"
             ELSE /\ shown' = IF IsSimulated(market)
                                 THEN Append(shown, "simulated_warning") ELSE shown
                  /\ dpc' = "banner"
    /\ UNCHANGED <<extVars, coreVars, simVars, btVars, indVars, final_decision_json, market_data_json>>

\* app.py:740-767: the decision banner with the recommendation
dash_banner ==
    /\ dpc = "banner"
    /\ shown' = Append(shown, "recommendation")
    /\ dpc' = "done"
    /\ UNCHANGED <<extVars, coreVars, simVars, btVars, indVars, final_decision_json, market_data_json>>

\* ------------------------------------------------ calculate_options_greeks
\* Dates are day numbers; the clock reads a day and an hour. Floats are kept
\* in fixed point: logarithm, drift and sigma * sqrt(T) in units of 1e-9, d1
\* in units of 1e-7, delta in units of 1e-9, gamma in units of 1e-11, T as
\* an exact quotient. Over the spots, strikes and dates below the delta is
\* within 1e-7 of the float the code returns and the gamma within 1e-5 of
\* it, relatively.
NoGreeksRet == [status |-> "unset", delta |-> 0, gamma |-> 0, iv |-> 0]
NoGreeks == [called |-> FALSE, spot |-> 0, strike |-> 0, expiry |-> 0, opt_type |-> "",
             today |-> 0, hour |-> 0, T |-> RInt(0), ret |-> NoGreeksRet]

GreekSpots == {23500, 24000, 24500}
GreekStrikes == {24000}
GreekExpiries == {20, 21, 24}
ClockDays == {19, 20, 21}
ClockHours == {0, 12}

\* tools.py:429: r = 0.065 in thousandths, sigma = 0.18 in hundredths
RiskFree == 65
sigma == 18

\* tools.py:426: timedelta.days of (expiry at 00:00) - (today at hour:00)
TimedeltaDays(expiry, today, hour) ==
    LET hours == expiry * 24 - (today * 24 + hour)
    IN  IF hours >= 0 THEN hours \div 24 ELSE -((23 - hours) \div 24)

\* tools.py:426-427
YearFraction(days) == IF days <= 0 THEN Norm(1, 1000) ELSE Norm(days, 365)

RECURSIVE IsqrtFrom(_, _)
IsqrtFrom(x, g) ==
    LET h == (g + x \div g) \div 2
    IN  IF h >= g THEN g ELSE IsqrtFrom(x, h)
\* np.sqrt, rounded down to an integer
Isqrt(x) == IF x = 0 THEN 0 ELSE IsqrtFrom(x, x)

\* a / b for a >= 0, b > 0 with `digits` more decimal digits, digit by digit
RECURSIVE DivFrom(_, _, _, _)
DivFrom(q, rem, b, digits) ==
    IF digits = 0 THEN q
    ELSE DivFrom(q * 10 + (rem * 10) \div b, (rem * 10) % b, b, digits - 1)
DivDigits(a, b, digits) == DivFrom(a \div b, a % b, b, digits)

\* np.log(S / K) in units of 1e-9: 2 z + 2 z^3 / 3 with z = (S - K) / (S + K)
\* (the next term, 2 z^5 / 5, is below 1e-10 for the spots and strikes above)
LogRatio(S, K) ==
    LET z == DivDigits(Abs(S - K), S + K, 9)
        z6 == z \div 1000
        z2 == (z6 * z6) \div 1000
        z3 == (z2 * z6) \div 1000000
        v == 2 * z + (2 * z3) \div 3
    IN  IF S < K THEN -v ELSE v

\* np.sqrt(x) * 1000 for x > 0: the integer root and one Newton step
Root(x) ==
    LET s == Isqrt(x)
    IN  s * 1000 + ((x - s * s) * 500) \div s

\* sigma * np.sqrt(T), in units of 1e-9: sqrt(n / d) = sqrt(n * d) / d
SigmaRootT(T) == DivDigits(sigma * Root(T.n * T.d * 1000000), T.d, 1)

\* tools.py:430: d1 in units of 1e-7
D1(S, K, T) ==
    LET drift == ((RiskFree * 10 + (sigma * sigma) \div 2) * 100000 * T.n) \div T.d
        num == LogRatio(S, K) + drift
        q == DivDigits(Abs(num), SigmaRootT(T), 7)
    IN  IF num < 0 THEN -q ELSE q

\* The standard normal distribution function at 0, 0.01, .. 5.00, in units
\* of 1e-9
NormCdfTable ==
    <<
       500000000, 503989356, 507978314, 511966473, 515953437, 519938806, 523922183, 527903170, 531881372, 535856393,
       539827837, 543795313, 547758426, 551716787, 555670005, 559617692, 563559463, 567494932, 571423716, 575345435,
       579259709, 583166163, 587064423, 590954115, 594834872, 598706326, 602568113, 606419873, 610261248, 614091881,
       617911422, 621719522, 625515835, 629300019, 633071736, 636830651, 640576433, 644308755, 648027292, 651731727,
       655421742, 659097026, 662757273, 666402179, 670031446, 673644780, 677241890, 680822491, 684386303, 687933051,
       691462461, 694974269, 698468212, 701944035, 705401484, 708840313, 712260281, 715661151, 719042691, 722404675,
       725746882, 729069096, 732371107, 735652708, 738913700, 742153889, 745373085, 748571105, 751747770, 754902906,
       758036348, 761147932, 764237502, 767304908, 770350003, 773372648, 776372708, 779350054, 782304562, 785236116,
       788144601, 791029912, 793891946, 796730608, 799545807, 802337457, 805105479, 807849798, 810570345, 813267057,
       815939875, 818588745, 821213620, 823814458, 826391220, 828943874, 831472393, 833976754, 836456941, 838912940,
       841344746, 843752355, 846135770, 848494997, 850830050, 853140944, 855427700, 857690346, 859928910, 862143428,
       864333939, 866500487, 868643119, 870761888, 872856849, 874928064, 876975597, 878999516, 880999893, 882976804,
       884930330, 886860554, 888767563, 890651448, 892512303, 894350226, 896165319, 897957685, 899727432, 901474671,
       903199515, 904902082, 906582491, 908240864, 909877328, 911492009, 913085038, 914656549, 916206678, 917735561,
       919243341, 920730159, 922196159, 923641490, 925066300, 926470740, 927854963, 929219123, 930563377, 931887882,
       933192799, 934478288, 935744512, 936991636, 938219823, 939429242, 940620059, 941792444, 942946567, 944082597,
       945200708, 946301072, 947383862, 948449252, 949497417, 950528532, 951542774, 952540318, 953521342, 954486023,
       955434537, 956367063, 957283779, 958184862, 959070491, 959940843, 960796097, 961636430, 962462020, 963273044,
       964069681, 964852106, 965620498, 966375031, 967115881, 967843225, 968557237, 969258091, 969945961, 970621020,
       971283440, 971933393, 972571050, 973196581, 973810155, 974411940, 975002105, 975580815, 976148236, 976704532,
       977249868, 977784406, 978308306, 978821730, 979324837, 979817785, 980300730, 980773828, 981237234, 981691100,
       982135579, 982570822, 982996977, 983414193, 983822617, 984222393, 984613665, 984996577, 985371269, 985737882,
       986096552, 986447419, 986790616, 987126279, 987454539, 987775527, 988089375, 988396208, 988696156, 988989342,
       989275890, 989555923, 989829561, 990096924, 990358130, 990613294, 990862532, 991105957, 991343681, 991575814,
       991802464, 992023740, 992239746, 992450589, 992656369, 992857189, 993053149, 993244347, 993430881, 993612845,
       993790335, 993963442, 994132258, 994296874, 994457377, 994613854, 994766392, 994915074, 995059984, 995201203,
       995338812, 995472889, 995603512, 995730757, 995854699, 995975411, 996092967, 996207438, 996318892, 996427399,
       996533026, 996635840, 996735904, 996833284, 996928041, 997020237, 997109932, 997197185, 997282055, 997364598,
       997444870, 997522925, 997598818, 997672600, 997744323, 997814039, 997881795, 997947641, 998011624, 998073791,
       998134187, 998192856, 998249843, 998305190, 998358939, 998411130, 998461805, 998511001, 998558758, 998605113,
       998650102, 998693762, 998736127, 998777231, 998817109, 998855793, 998893315, 998929706, 998964997, 998999218,
       999032397, 999064563, 999095745, 999125968, 999155261, 999183648, 999211154, 999237805, 999263625, 999288636,
       999312862, 999336325, 999359047, 999381049, 999402352, 999422975, 999442939, 999462263, 999480965, 999499063,
       999516576, 999533520, 999549913, 999565770, 999581108, 999595942, 999610288, 999624159, 999637571, 999650537,
       999663071, 999675186, 999686894, 999698209, 999709143, 999719707, 999729912, 999739771, 999749293, 999758490,
       999767371, 999775947, 999784227, 999792220, 999799936, 999807384, 999814573, 999821509, 999828203, 999834661,
       999840891, 999846901, 999852698, 999858289, 999863681, 999868880, 999873892, 999878725, 999883383, 999887873,
       999892200, 999896370, 999900389, 999904260, 999907990, 999911583, 999915043, 999918376, 999921586, 999924676,
       999927652, 999930517, 999933274, 999935928, 999938483, 999940941, 999943306, 999945582, 999947772, 999949878,
       999951904, 999953852, 999955726, 999957527, 999959259, 999960924, 999962525, 999964064, 999965542, 999966963,
       999968329, 999969641, 999970901, 999972112, 999973274, 999974391, 999975464, 999976493, 999977482, 999978431,
       999979342, 999980217, 999981056, 999981862, 999982635, 999983376, 999984088, 999984770, 999985425, 999986052,
       999986654, 999987231, 999987785, 999988315, 999988824, 999989311, 999989779, 999990226, 999990655, 999991066,
       999991460, 999991837, 999992199, 999992545, 999992876, 999993193, 999993497, 999993788, 999994066, 999994332,
       999994587, 999994831, 999995065, 999995288, 999995502, 999995706, 999995902, 999996089, 999996268, 999996439,
       999996602, 999996759, 999996908, 999997051, 999997187, 999997318, 999997442, 999997561, 999997675, 999997784,
       999997888, 999997987, 999998081, 999998172, 999998258, 999998340, 999998419, 999998494, 999998566, 999998634,
       999998699, 999998761, 999998821, 999998877, 999998931, 999998983, 999999032, 999999079, 999999124, 999999166,
       999999207, 999999245, 999999282, 999999317, 999999351, 999999383, 999999413, 999999442, 999999470, 999999496,
       999999521, 999999545, 999999567, 999999589, 999999609, 999999629, 999999648, 999999665, 999999682, 999999698,
       999999713 >>
\* and its density
NormPdfTable ==
    <<
       398942280, 398922334, 398862500, 398762797, 398623254, 398443914, 398224830, 397966068, 397667706, 397329832,
       396952547, 396535966, 396080212, 395585421, 395051741, 394479331, 393868362, 393219015, 392531483, 391805971,
       391042694, 390241878, 389403759, 388528585, 387616615, 386668117, 385683369, 384662661, 383606292, 382514571,
       381387815, 380226355, 379030526, 377800677, 376537162, 375240347, 373910605, 372548319, 371153879, 369727684,
       368270140, 366781662, 365262673, 363713600, 362134882, 360526962, 358890291, 357225325, 355532529, 353812370,
       352065327, 350291879, 348492513, 346667721, 344818001, 342943855, 341045789, 339124313, 337179944, 335213199,
       333224603, 331214680, 329183961, 327132977, 325062264, 322972360, 320863804, 318737138, 316592908, 314431657,
       312253933, 310060285, 307851260, 305627410, 303389284, 301137432, 298872406, 296594755, 294305030, 292003780,
       289691553, 287368897, 285036358, 282694482, 280343811, 277984886, 275618247, 273244431, 270863972, 268477402,
       266085250, 263688042, 261286301, 258880547, 256471294, 254059056, 251644341, 249227652, 246809491, 244390351,
       241970725, 239551098, 237131952, 234713764, 232297005, 229882141, 227469632, 225059935, 222653499, 220250767,
       217852177, 215458162, 213069147, 210685552, 208307790, 205936269, 203571388, 201213543, 198863119, 196520499,
       194186055, 191860155, 189543158, 187235418, 184937281, 182649085, 180371163, 178103839, 175847430, 173602247,
       171368592, 169146761, 166937042, 164739715, 162555055, 160383327, 158224790, 156079696, 153948287, 151830800,
       149727466, 147638504, 145564130, 143504551, 141459965, 139430566, 137416539, 135418062, 133435304, 131468430,
       129517596, 127582951, 125664637, 123762790, 121877537, 120009001, 118157295, 116322528, 114504800, 112704207,
       110920835, 109154766, 107406075, 105674831, 103961095, 102264925, 100586368, 98925471, 97282269, 95656796,
       94049077, 92459133, 90886979, 89332623, 87796071, 86277319, 84776361, 83293186, 81827776, 80380109,
       78950158, 77537892, 76143274, 74766262, 73406813, 72064874, 70740393, 69433312, 68143566, 66871091,
       65615815, 64377664, 63156561, 61952425, 60765169, 59594706, 58440944, 57303789, 56183142, 55078902,
       53990967, 52919228, 51863577, 50823901, 49800088, 48792019, 47799575, 46822635, 45861076, 44914772,
       43983596, 43067418, 42166107, 41279530, 40407554, 39550042, 38706856, 37877859, 37062910, 36261869,
       35474593, 34700939, 33940763, 33193921, 32460266, 31739652, 31031932, 30336959, 29654585, 28984661,
       28327038, 27681567, 27048100, 26426485, 25816575, 25218220, 24631269, 24055574, 23490985, 22937354,
       22394530, 21862367, 21340715, 20829427, 20328356, 19837354, 19356277, 18884977, 18423311, 17971133,
       17528300, 17094670, 16670101, 16254450, 15847579, 15449347, 15059616, 14678249, 14305109, 13940061,
       13582969, 13233702, 12892126, 12558111, 12231526, 11912244, 11600135, 11295075, 10996937, 10705598,
       10420935, 10142827, 9871154, 9605797, 9346638, 9093563, 8846454, 8605201, 8369689, 8139809,
       7915452, 7696508, 7482873, 7274439, 7071105, 6872767, 6679324, 6490676, 6306726, 6127377,
       5952532, 5782099, 5615984, 5454095, 5296344, 5142641, 4992899, 4847033, 4704958, 4566590,
       4431848, 4300652, 4172923, 4048582, 3927554, 3809762, 3695134, 3583596, 3475077, 3369508,
       3266819, 3166943, 3069813, 2975365, 2883534, 2794258, 2707476, 2623126, 2541150, 2461490,
       2384088, 2308890, 2235839, 2164884, 2095971, 2029048, 1964066, 1900975, 1839726, 1780273,
       1722569, 1666569, 1612227, 1559502, 1508351, 1458731, 1410602, 1363925, 1318661, 1274771,
       1232219, 1190968, 1150983, 1112230, 1074673, 1038281, 1003021, 968862, 935772, 903722,
       872683, 842625, 813521, 785344, 758067, 731664, 706111, 681381, 657452, 634300,
       611902, 590236, 569280, 549013, 529415, 510465, 492144, 474434, 457315, 440769,
       424780, 409330, 394403, 379981, 366051, 352596, 339601, 327053, 314937, 303239,
       291947, 281047, 270527, 260375, 250578, 241127, 232008, 223212, 214728, 206546,
       198655, 191047, 183712, 176641, 169826, 163256, 156926, 150825, 144948, 139285,
       133830, 128576, 123516, 118643, 113951, 109434, 105085, 100899, 96870, 92993,
       89262, 85672, 82218, 78895, 75700, 72626, 69670, 66828, 64095, 61468,
       58943, 56516, 54183, 51942, 49788, 47719, 45731, 43821, 41988, 40226,
       38535, 36911, 35353, 33856, 32420, 31041, 29719, 28449, 27231, 26063,
       24942, 23868, 22837, 21848, 20900, 19992, 19121, 18286, 17486, 16719,
       15984, 15280, 14605, 13959, 13340, 12747, 12180, 11636, 11116, 10618,
       10141, 9684, 9248, 8830, 8430, 8047, 7681, 7331, 6996, 6676,
       6370, 6077, 5797, 5530, 5274, 5030, 4796, 4573, 4360, 4156,
       3961, 3775, 3598, 3428, 3267, 3112, 2965, 2824, 2690, 2561,
       2439, 2322, 2211, 2105, 2003, 1907, 1814, 1727, 1643, 1563,
       1487 >>

\* The tables are read at x >= 0 (units of 1e-7) from the nearest entry,
\* Node(x), and the distance to it, Off(x), by the Taylor series of the
\* function up to the square of the distance (the next term is below 1e-8):
\* cdf' = pdf, cdf'' = -x pdf, pdf' = -x pdf, pdf'' = (x^2 - 1) pdf.
Node(x) ==
    LET i == (x + 50000) \div 100000
    IN  IF i > Len(NormCdfTable) - 1 THEN Len(NormCdfTable) - 1 ELSE i
Off(x) == x - Node(x) * 100000
\* p (units of 1e-7) times a distance h >= 0, in units of 1e-9
Times(p, h) == (p * (h \div 100)) \div 1000 + (p * (h % 100)) \div 100000
\* the square of a distance, in units of 1e-9
Sq(h) == ((Abs(h) \div 10) * (Abs(h) \div 10)) \div 1000

CdfAt(x) ==
    LET i == Node(x)
        h == Off(x)
        P == NormPdfTable[i + 1]
        t1 == Times(P \div 100, Abs(h))
        t2 == (((i * (P \div 100)) \div 10000) * Sq(h)) \div 200000
    IN  IF i = Len(NormCdfTable) - 1 THEN NormCdfTable[i + 1]
        ELSE NormCdfTable[i + 1] + (IF h >= 0 THEN t1 ELSE -t1) - t2

PdfAt(x) ==
    LET i == Node(x)
        h == Off(x)
        P == NormPdfTable[i + 1]
        t1 == Times((i * (P \div 100)) \div 100, Abs(h))
        c == ((i * i - 10000) * (P \div 10000)) \div 10000
        t2 == (c * Sq(h)) \div 200000
    IN  IF i = Len(NormPdfTable) - 1 THEN P
        ELSE P - (IF h >= 0 THEN t1 ELSE -t1) + t2

\* scipy.stats.norm.cdf and norm.pdf
norm_cdf(x) == IF x >= 0 THEN CdfAt(x) ELSE 1000000000 - CdfAt(-x)
norm_pdf(x) == PdfAt(Abs(x))

\* The put delta without the sign flip of its argument.
PutDeltaUnflipped(d1) == -norm_cdf(d1)

\* tools.py:436
PutDelta(d1) == -norm_cdf(-d1)

\* tools.py:433-436
OptionDelta(opt_type, d1) == IF opt_type = "CE" THEN norm_cdf(d1) ELSE PutDelta(d1)

\* tools.py:439: norm.pdf(d1) / (S * sigma * np.sqrt(T)), in units of 1e-11
OptionGamma(S, d1, T) == DivDigits(DivDigits(norm_pdf(d1), S, 5), SigmaRootT(T), 6)

\* tools.py:421-443, one call at the clock reading (today, hour); it follows
\* earlier calls for the same contract
calculate_options_greeks ==
    \E S \in GreekSpots, K \in GreekStrikes, e \in GreekExpiries, ty \in {"CE", "PE"},
       day \in ClockDays, h \in ClockHours :
        /\ g_last.called =>
              /\ S = g_last.spot /\ K = g_last.strike /\ e = g_last.expiry
              /\ day > g_last.today \/ (day = g_last.today /\ h >= g_last.hour)
        /\ g_prev' = g_last
        /\ LET T == YearFraction(TimedeltaDays(e, day, h))
               d1 == D1(S, K, T)
           IN  g_last' = [called |-> TRUE, spot |-> S, strike |-> K, expiry |-> e,
                          opt_type |-> ty, today |-> day, hour |-> h, T |-> T,
                          ret |-> [status |-> "success", delta |-> OptionDelta(ty, d1),
                                   gamma |-> OptionGamma(S, d1, T), iv |-> sigma]]
        /\ UNCHANGED <<coreVars, simVars, btVars, indVars, dashVars,
                       expVars, mainVars, dataVars, pollVars>>

\* ------------------------------------------------- find_nifty_expiry_dates
\* Day numbers again; day 0 is a Monday, as datetime.weekday() counts.
NoExpiryCall == [called |-> FALSE, count |-> 0, today |-> 0, hour |-> 0, ret |-> <<>>]

weekday(day) == day % 7

ExpiryClockDays == 14..20
ExpiryClockHours == 0..23

\* tools.py:136-140: the day of next_expiry
NextExpiry(today, hour) ==
    LET d0 == (3 - weekday(today)) % 7
        days_ahead == IF d0 = 0 /\ hour >= 15 THEN 7 ELSE d0
    IN  today + (IF days_ahead > 0 THEN days_ahead ELSE 7)

\* tools.py:141-144: the dates, which strftime cuts to the day
Expiries(today, hour, count) ==
    [i \in 1..count |-> NextExpiry(today, hour) + 7 * (i - 1)]

\* tools.py:130-146, one call at the clock reading (day, h)
find_nifty_expiry_dates ==
    \E count \in 0..MaxCount, day \in ExpiryClockDays, h \in ExpiryClockHours :
        /\ ~exp_call.called
        /\ exp_call' = [called |-> TRUE, count |-> count, today |-> day, hour |-> h,
                        ret |-> Expiries(day, h, count)]
        /\ UNCHANGED <<coreVars, simVars, btVars, indVars, dashVars,
                       greekVars, mainVars, dataVars, pollVars>>

\* ------------------------------------------------------------- main.run
\* everything main.run leaves alone besides the session
besideMain == <<simVars, btVars, indVars, dashVars, greekVars, expVars, dataVars, pollVars>>

MainEnvs == [openai : BOOLEAN, allow_sim : BOOLEAN, isatty : BOOLEAN]
\* what a user types at a prompt
Answers == {"y", "Y", "n", ""}

\* str.lower()
Lower(str) == IF str = "Y" THEN "y" ELSE str

\* main.py:73-82: some required variable is not set
Missing == ~main_env.openai \/ creds = "missing"

\* Any answer but a plain no taken as consent.
ConsentsUnlessNo(response) == Lower(response) # "n"

\* main.py:105, 136
Consents(response) == Lower(response) = "y"

\* main.py:96-109 and 127-140: the consent gate after a failed check; it ends
\* the run with sys.exit(1) or moves on to `next`
Gate(check, next) ==
    IF ~main_env.isatty /\ ~main_env.allow_sim
      THEN /\ main_out' = Append(main_out, "exit1")
           /\ pc' = [pc EXCEPT ![1] = "m_done"]
           /\ consents' = consents
      ELSE \E response \in (IF main_env.allow_sim THEN {"y"} ELSE Answers) :
             /\ consents' = consents \cup {[check |-> check, answer |-> response,
                                            asked |-> ~main_env.allow_sim]}
             /\ IF Consents(response)
                  THEN /\ main_out' = main_out
                       /\ pc' = [pc EXCEPT ![1] = next]
                  ELSE /\ main_out' = Append(main_out, "exit1")
                       /\ pc' = [pc EXCEPT ![1] = "m_done"]

\* main.py:60: run() starts in some environment
main_start ==
    /\ pc[1] = "idle"
    /\ main_out = <<>>
    /\ \E env \in MainEnvs : main_env' = env
    /\ pc' = [pc EXCEPT ![1] = "m_env"]
    /\ UNCHANGED <<creds, sessVars, obsVars, opsStarted, authLocals, ltpLocals, appVars,
                   chainVars, besideMain, main_out, consents>>

\* main.py:73-109
main_env_check ==
    /\ pc[1] = "m_env"
    /\ IF Missing
         THEN Gate("missing", "m_auth")
         ELSE /\ pc' = [pc EXCEPT ![1] = "m_auth"]
              /\ UNCHANGED <<main_out, consents>>
    /\ UNCHANGED <<creds, sessVars, obsVars, opsStarted, authLocals, ltpLocals, appVars,
                   chainVars, besideMain, main_env>>

\* main.py:116: auth_result = authenticate_angel.func()
main_auth ==
    /\ pc[1] = "m_auth"
    /\ pc' = [pc EXCEPT ![1] = "a_creds"]
    /\ authRet' = [authRet EXCEPT ![1] = "m_authed"]
    /\ UNCHANGED <<creds, sessVars, obsVars, opsStarted, session_data, auth_result, pre,
                   ltpLocals, appVars, chainVars, besideMain, mainVars>>

\* main.py:118-140
main_authed ==
    /\ pc[1] = "m_authed"
    /\ IF auth_result[1].status = "success"
         THEN /\ pc' = [pc EXCEPT ![1] = "m_kickoff"]
              /\ UNCHANGED <<main_out, consents>>
         ELSE Gate("auth", "m_kickoff")
    /\ UNCHANGED <<creds, sessVars, obsVars, opsStarted, authLocals, ltpLocals, appVars,
                   chainVars, besideMain, main_env>>

\* main.py:145-193: the inputs are prepared and the crew is kicked off; when
\* kickoff raises, the run ends with sys.exit(1)
main_kickoff ==
    /\ pc[1] = "m_kickoff"
    /\ \/ main_out' = Append(main_out, "kickoff")
       \/ main_out' = main_out \o <<"kickoff", "exit1">>
    /\ pc' = [pc EXCEPT ![1] = "m_done"]
    /\ UNCHANGED <<creds, sessVars, obsVars, opsStarted, authLocals, ltpLocals, appVars,
                   chainVars, besideMain, main_env, consents>>

main_run ==
    \/ main_env_check
    \/ main_auth
    \/ main_authed
    \/ main_kickoff

\* ------------------------------ get_angel_quote, get_angel_historical_data
\* everything the two tools leave alone besides the session
besideData == <<simVars, btVars, indVars, dashVars, greekVars, expVars, mainVars, pollVars>>

\* Replies of getMarketData(mode="FULL") and getCandleData
DataResponses == [kind : ResponseKinds \ {"raise"}, exch : {0}, ltp : {0}]

\* A crew agent invokes the quote tool.
CallQuote(t) ==
    /\ pc[t] = "idle"
    /\ opsStarted < MaxDataCalls
    /\ opsStarted' = opsStarted + 1
    /\ pc' = [pc EXCEPT ![t] = "q_check"]
    /\ quote_data' = NoResponse
    /\ data_res' = NoResult
    /\ UNCHANGED <<creds, sessVars, obsVars, authLocals, ltpLocals, appVars, chainVars, besideData>>

\* tools.py:190-191: the lazy login, whose result is not looked at
quote_check(t) ==
    /\ pc[t] = "q_check"
    /\ IF NeedsLogin
         THEN /\ pc' = [pc EXCEPT ![t] = "a_creds"]
              /\ authRet' = [authRet EXCEPT ![t] = "q_call"]
         ELSE /\ pc' = [pc EXCEPT ![t] = "q_call"]
              /\ authRet' = authRet
    /\ UNCHANGED <<creds, sessVars, obsVars, opsStarted, session_data, auth_result, pre,
                   ltpLocals, appVars, chainVars, besideData, dataVars>>

\* tools.py:193: _smart_api.getMarketData(mode="FULL", ...); on None the
\* attribute access raises into the except of line 212
quote_call(t) ==
    /\ pc[t] = "q_call"
    /\ IF _smart_api.id = 0
         THEN /\ data_res' = Failed("exception")
              /\ pc' = [pc EXCEPT ![t] = "idle"]
              /\ UNCHANGED <<requests, quote_data>>
         ELSE /\ requests' = requests \cup {[tool |-> "getMarketData", handle |-> _smart_api]}
              /\ \/ /\ data_res' = Failed("exception")
                    /\ quote_data' = quote_data
                    /\ pc' = [pc EXCEPT ![t] = "idle"]
                 \/ \E r \in DataResponses :
                      /\ quote_data' = r
                      /\ data_res' = data_res
                      /\ pc' = [pc EXCEPT ![t] = "q_parse"]
    /\ UNCHANGED <<creds, sessVars, badGet, nAuthCalls, opsStarted, authLocals, ltpLocals,
                   appVars, chainVars, besideData>>

\* tools.py:196-210: an "ok" reply carries a fetched row, an "okempty" one none
quote_parse(t) ==
    /\ pc[t] = "q_parse"
    /\ data_res' = IF _is_valid_response(quote_data) /\ StatusTrue(quote_data)
                         /\ quote_data.kind = "ok"
                      THEN Success ELSE Failed("no_data")
    /\ pc' = [pc EXCEPT ![t] = "idle"]
    /\ UNCHANGED <<creds, sessVars, obsVars, opsStarted, authLocals, ltpLocals, appVars,
                   chainVars, besideData, quote_data>>

get_angel_quote(t) ==
    \/ quote_check(t)
    \/ quote_call(t)
    \/ quote_parse(t)

\* A crew agent invokes the history tool.
CallHistory(t) ==
    /\ pc[t] = "idle"
    /\ opsStarted < MaxDataCalls
    /\ opsStarted' = opsStarted + 1
    /\ pc' = [pc EXCEPT ![t] = "h_check"]
    /\ quote_data' = NoResponse
    /\ data_res' = NoResult
    /\ UNCHANGED <<creds, sessVars, obsVars, authLocals, ltpLocals, appVars, chainVars, besideData>>

\* tools.py:224-225: the lazy login, whose result is not looked at
hist_check(t) ==
    /\ pc[t] = "h_check"
    /\ IF NeedsLogin
         THEN /\ pc' = [pc EXCEPT ![t] = "a_creds"]
              /\ authRet' = [authRet EXCEPT ![t] = "h_call"]
         ELSE /\ pc' = [pc EXCEPT ![t] = "h_call"]
              /\ authRet' = authRet
    /\ UNCHANGED <<creds, sessVars, obsVars, opsStarted, session_data, auth_result, pre,
                   ltpLocals, appVars, chainVars, besideData, dataVars>>

\* tools.py:231-234: _smart_api.getCandleData({...})
hist_call(t) ==
    /\ pc[t] = "h_call"
    /\ IF _smart_api.id = 0
         THEN /\ data_res' = Failed("exception")
              /\ pc' = [pc EXCEPT ![t] = "idle"]
              /\ UNCHANGED <<requests, quote_data>>
         ELSE /\ requests' = requests \cup {[tool |-> "getCandleData", handle |-> _smart_api]}
              /\ \/ /\ data_res' = Failed("exception")
                    /\ quote_data' = quote_data
                    /\ pc' = [pc EXCEPT ![t] = "idle"]
                 \/ \E r \in DataResponses :
                      /\ quote_data' = r
                      /\ data_res' = data_res
                      /\ pc' = [pc EXCEPT ![t] = "h_parse"]
    /\ UNCHANGED <<creds, sessVars, badGet, nAuthCalls, opsStarted, authLocals, ltpLocals,
                   appVars, chainVars, besideData>>

\* tools.py:237-243
hist_parse(t) ==
    /\ pc[t] = "h_parse"
    /\ data_res' = IF _is_valid_response(quote_data) /\ StatusTrue(quote_data)
                      THEN Success ELSE Failed("api_error")
    /\ pc' = [pc EXCEPT ![t] = "idle"]
    /\ UNCHANGED <<creds, sessVars, obsVars, opsStarted, authLocals, ltpLocals, appVars,
                   chainVars, besideData, quote_data>>

get_angel_historical_data(t) ==
    \/ hist_check(t)
    \/ hist_call(t)
    \/ hist_parse(t)

\* ------------------------------------------ run_analysis, the wait for the crew
\* everything the wait leaves alone
besidePoll == <<coreVars, simVars, btVars, indVars, dashVars, greekVars, expVars, mainVars, dataVars>>

\* app.py:662-663
CREW_TIMEOUT_SECONDS == 900
poll_interval == 2

\* app.py:514-524, the keys
TASK_LABELS == {"fetch_market_data", "analyze_technicals", "analyze_sentiment",
                "compute_greeks_volatility",
                "backtest_strategies", "synthesize_strategy",
                "assess_risk_hedging", "make_final_decision", "generate_report"}

\* What _on_step and _on_task append: a step message, a task that matched a
\* key.
Updates == {[kind |-> "step", msg |-> "step:processing"],
            [kind |-> "task", msg |-> "fetch_market_data"]}

\* str(e) of the exception that ended kickoff; an exception without a message
\* gives the empty string
ErrorTexts == {"boom", ""}

TimeoutText == "Timed out"

\* app.py:528: result_container = {}
NoContainer == [result |-> "unset", error |-> "unset"]

\* variant: the slice starts at the head of the list
RereadAll(updates, count) == updates

\* app.py:672 and 708: live_updates[last_update_count:]
NewUpdates(updates, count) == SubSeq(updates, count + 1, Len(updates))

Contains(list, x) == \E i \in 1..Len(list) : list[i] = x

\* app.py:677-679 and 709-711, run over a slice
RECURSIVE ProcessTasks(_, _)
ProcessTasks(done, updates) ==
    IF updates = <<>> THEN done
    ELSE LET u == Head(updates)
             next == IF u.kind = "task" /\ u.msg \in TASK_LABELS /\ ~Contains(done, u.msg)
                       THEN Append(done, u.msg) ELSE done
         IN  ProcessTasks(next, Tail(updates))

\* the slices the UI thread holds
sliceVars == <<new_updates, final_updates>>

\* app.py:533-563: a callback appends under updates_lock while kickoff runs
crew_callback ==
    /\ crew = "running"
    /\ Len(live_updates) < MaxUpdates
    /\ \E u \in Updates : live_updates' = Append(live_updates, u)
    /\ UNCHANGED <<besidePoll, crew, last_update_count, sliceVars, elapsed, result_container, upc,
                   completed_tasks_set, seen, timed_out, outcome>>

\* app.py:566-570 and 572-573: kickoff returns or raises, the first write
crew_result ==
    /\ crew = "running"
    /\ \/ /\ result_container' = [result_container EXCEPT !.result = "result"]
          /\ crew' = "returned"
       \/ /\ result_container' = [result_container EXCEPT !.result = "None"]
          /\ crew' = "raised"
    /\ UNCHANGED <<besidePoll, live_updates, last_update_count, sliceVars, elapsed, upc,
                   completed_tasks_set, seen, timed_out, outcome>>

\* app.py:571 and 574: the second write, after which the thread ends
crew_error ==
    /\ crew \in {"returned", "raised"}
    /\ IF crew = "returned"
         THEN result_container' = [result_container EXCEPT !.error = "None"]
         ELSE \E e \in ErrorTexts :
                 result_container' = [result_container EXCEPT !.error = e]
    /\ crew' = "done"
    /\ UNCHANGED <<besidePoll, live_updates, last_update_count, sliceVars, elapsed, upc,
                   completed_tasks_set, seen, timed_out, outcome>>

_run_crew ==
    \/ crew_callback
    \/ crew_result
    \/ crew_error

\* app.py:657-665: the thread is started, the counters are set
poll_start ==
    /\ upc = "idle"
    /\ crew = "unstarted"
    /\ crew' = "running"
    /\ elapsed' = 0
    /\ last_update_count' = 0
    /\ upc' = "loop"
    /\ UNCHANGED <<besidePoll, live_updates, sliceVars, result_container, completed_tasks_set, seen,
                   timed_out, outcome>>

\* app.py:667: while crew_thread.is_alive()
poll_alive ==
    /\ upc = "loop"
    /\ upc' = IF crew # "done" THEN "sleep" ELSE "drain"
    /\ UNCHANGED <<besidePoll, crew, live_updates, last_update_count, sliceVars, elapsed,
                   result_container, completed_tasks_set, seen, timed_out, outcome>>

\* app.py:668-673: the sleep and the slice under updates_lock
poll_read ==
    /\ upc = "sleep"
    /\ elapsed' = elapsed + poll_interval
    /\ new_updates' = NewUpdates(live_updates, last_update_count)
    /\ seen' = seen \o new_updates'
    /\ last_update_count' = Len(live_updates)
    /\ upc' = "process"
    /\ UNCHANGED <<besidePoll, crew, live_updates, final_updates, result_container,
                   completed_tasks_set, timed_out, outcome>>

\* app.py:675-697: the slice is worked off with the lock released
poll_process ==
    /\ upc = "process"
    /\ completed_tasks_set' = ProcessTasks(completed_tasks_set, new_updates)
    /\ upc' = "timeout"
    /\ UNCHANGED <<besidePoll, crew, live_updates, last_update_count, sliceVars, elapsed,
                   result_container, seen, timed_out, outcome>>

\* app.py:699-704
poll_timeout ==
    /\ upc = "timeout"
    /\ IF elapsed >= CREW_TIMEOUT_SECONDS
         THEN /\ result_container' = [result_container EXCEPT !.error = TimeoutText]
              /\ timed_out' = TRUE
              /\ upc' = "drain"
         ELSE /\ upc' = "loop"
              /\ UNCHANGED <<result_container, timed_out>>
    /\ UNCHANGED <<besidePoll, crew, live_updates, last_update_count, sliceVars, elapsed,
                   completed_tasks_set, seen, outcome>>

\* app.py:706-708: the slice of the final drain, under updates_lock
poll_drain ==
    /\ upc = "drain"
    /\ final_updates' = NewUpdates(live_updates, last_update_count)
    /\ seen' = seen \o final_updates'
    /\ upc' = "finish"
    /\ UNCHANGED <<besidePoll, crew, live_updates, last_update_count, new_updates, elapsed,
                   result_container, completed_tasks_set, timed_out, outcome>>

\* app.py:709-714: the drained slice is worked off with the lock released
poll_finish ==
    /\ upc = "finish"
    /\ completed_tasks_set' = ProcessTasks(completed_tasks_set, final_updates)
    /\ upc' = "check"
    /\ UNCHANGED <<besidePoll, crew, live_updates, last_update_count, sliceVars, elapsed,
                   result_container, seen, timed_out, outcome>>

\* result_container.get("error") as a condition
HasError(container) == container.error \notin {"unset", "None", ""}

\* app.py:716-722
poll_report ==
    /\ upc = "check"
    /\ outcome' = IF HasError(result_container) THEN "error" ELSE "complete"
    /\ upc' = "done"
    /\ UNCHANGED <<besidePoll, crew, live_updates, last_update_count, sliceVars, elapsed,
                   result_container, completed_tasks_set, seen, timed_out>>

run_analysis ==
    \/ poll_start
    \/ poll_alive
    \/ poll_read
    \/ poll_process
    \/ poll_timeout
    \/ poll_drain
    \/ poll_finish
    \/ poll_report

\* ------------------------------------------------------------ behaviours
NoSession == [handle |-> NoHandle, auth |-> 0, feed |-> 0, refresh |-> 0]

\* Module import (tools.py:26-30) and an empty st.session_state
Init ==
    /\ creds \in {"ok", "missing", "badtotp"}
    /\ _smart_api = NoHandle
    /\ _auth_token = 0
    /\ _feed_token = 0
    /\ _refresh_token = 0
    /\ nHandles = 0
    /\ nExch = 0
    /\ allExchOk = TRUE
    /\ badGet = {}
    /\ requests = {}
    /\ nAuthCalls = 0
    /\ opsStarted = 0
    /\ pc = [t \in Threads |-> "idle"]
    /\ authRet = [t \in Threads |-> "idle"]
    /\ session_data = [t \in Threads |-> NoResponse]
    /\ auth_result = [t \in Threads |-> NoResult]
    /\ pre = [t \in Threads |-> NoSession]
    /\ ltpRet = [t \in Threads |-> "idle"]
    /\ ltp_data = [t \in Threads |-> NoResponse]
    /\ ltp_res = [t \in Threads |-> NoResult]
    /\ angel_auth = [status |-> "absent", error |-> "unset", ltp |-> 0]
    /\ angel_auth_time = 0
    /\ now = 0
    /\ nTicks = 0
    /\ acq = [auth |-> [status |-> "absent", error |-> "unset", ltp |-> 0], time |-> 0,
              now |-> 0, exch |-> 0, calls |-> 0, session |-> NoSession]
    /\ _instrument_master = [loaded |-> FALSE, items |-> <<>>]
    /\ expiry_date = ""
    /\ spot_price = 0
    /\ atm_strike = 0
    /\ defined = {}
    /\ target_dt = NoDate
    /\ token_map = <<>>
    /\ market_data = NoMarketData
    /\ option_chain = <<>>
    /\ result = NoSnapshot
    /\ raised = FALSE
    /\ batchReqs = <<>>
    /\ resolved = FALSE
    /\ dlRet = "idle"
    /\ dl_res = "unset"
    /\ sim_last = NoSim
    /\ sim_prev = NoSim
    /\ bt_args = NoBtArgs
    /\ bt_ret = NoBtResult
    /\ bt_pnls = <<>>
    /\ ind_args = NoSeries
    /\ ind_curr = NoRow
    /\ ind_ret = NoIndicators
    /\ final_decision_json = NoFile
    /\ market_data_json = NoFile
    /\ dpc = "idle"
    /\ shown = <<>>
    /\ g_last = NoGreeks
    /\ g_prev = NoGreeks
    /\ exp_call = NoExpiryCall
    /\ main_env = [openai |-> FALSE, allow_sim |-> FALSE, isatty |-> FALSE]
    /\ main_out = <<>>
    /\ consents = {}
    /\ quote_data = NoResponse
    /\ data_res = NoResult
    /\ crew = "unstarted"
    /\ live_updates = <<>>
    /\ last_update_count = 0
    /\ new_updates = <<>>
    /\ final_updates = <<>>
    /\ elapsed = 0
    /\ result_container = NoContainer
    /\ upc = "idle"
    /\ completed_tasks_set = <<>>
    /\ seen = <<>>
    /\ timed_out = FALSE
    /\ outcome = "none"

\* The dashboard's script thread: runs of app.py, one after another.
NextSession ==
    \/ app_rerun(1)
    \/ app_reset(1)
    \/ authenticate_angel(1)
    \/ app_store(1)
    \/ Tick

SpecSession == Init /\ [][NextSession]_vars

\* Worker threads that call the spot tool concurrently.
NextTools ==
    \E t \in Threads :
        \/ CallLtp(t)
        \/ get_angel_ltp(t)
        \/ authenticate_angel(t)

SpecTools == Init /\ [][NextTools]_vars

\* One caller of the option-chain tool, call after call.
NextChain ==
    \/ CallChain(1)
    \/ get_angel_option_chain(1)
    \/ get_angel_ltp(1)
    \/ authenticate_angel(1)
    \/ download_instrument_master_json(1)

SpecChain == Init /\ [][NextChain]_vars

\* The simulated ladder generated again and again.
NextLadder == CallSimulated

SpecLadder == Init /\ [][NextLadder]_vars

\* One call of the backtest tool, on any of the inputs.
NextBacktest == backtest_option_strategy

SpecBacktest == Init /\ [][NextBacktest]_vars

\* One call of the indicator tool, on any of the series.
NextIndicators == calculate_technical_indicators

SpecIndicators == Init /\ [][NextIndicators]_vars

\* Dashboard renderings, one pipeline run after another.
NextDashboard ==
    \/ dash_open
    \/ dash_decision
    \/ dash_market
    \/ dash_banner

SpecDashboard == Init /\ [][NextDashboard]_vars

\* The pricing tool called for one contract, again and again as time passes.
NextGreeks == calculate_options_greeks

SpecGreeks == Init /\ [][NextGreeks]_vars

\* One call of the expiry tool, at any time of the week.
NextExpiries == find_nifty_expiry_dates

SpecExpiries == Init /\ [][NextExpiries]_vars

\* One run of main.py.
NextMain ==
    \/ main_start
    \/ main_run
    \/ authenticate_angel(1)

SpecMain == Init /\ [][NextMain]_vars

\* One caller of the quote and history tools, call after call.
NextData ==
    \/ CallQuote(1)
    \/ CallHistory(1)
    \/ get_angel_quote(1)
    \/ get_angel_historical_data(1)
    \/ authenticate_angel(1)

SpecData == Init /\ [][NextData]_vars

\* The dashboard's wait: the UI thread and the crew thread interleave.
NextPoll ==
    \/ run_analysis
    \/ _run_crew

\* The wait reads no credential: one setting of them is enough.
InitPoll == Init /\ creds = "ok"

SpecPoll == InitPoll /\ [][NextPoll]_vars

\* The UI thread keeps being scheduled and its sleep returns; nothing is
\* assumed of the crew thread, which may never finish.
SpecPollFair == SpecPoll /\ WF_vars(run_analysis)


\* ============================================================== claims
\* What a dashboard run saw: no cached session, a cached status that is not
\* success, or an elapsed time above the TTL.
RefreshDue(a) ==
    \/ a.auth.status = "absent"
    \/ a.auth.status # "success"
    \/ a.now - a.time > AUTH_TTL_SECONDS

CacheUntouched(a) ==
    /\ angel_auth = a.auth
    /\ angel_auth_time = a.time
    /\ SessionState = a.session

\* A step that ends an acquire(): the login block is left, by the store of
\* app.py:394-395 or by the test of line 391 that found nothing to do.
AcquireFinishes ==
    /\ pc'[1] = "p_done"
    /\ pc[1] # "p_done" \/ opsStarted' # opsStarted

ExchangeIffRefreshDue ==
    /\ (nExch - acq.exch = 1) <=> RefreshDue(acq)
    /\ ~RefreshDue(acq) => (nExch = acq.exch /\ CacheUntouched(acq))

AttemptIffRefreshDue ==
    /\ (nAuthCalls - acq.calls = 1) <=> RefreshDue(acq)
    /\ (nAuthCalls - acq.calls = 0) <=> ~RefreshDue(acq)
    /\ (nExch - acq.exch = 1) <=> (RefreshDue(acq) /\ creds = "ok")
    /\ (nExch - acq.exch = 0) <=> ~(RefreshDue(acq) /\ creds = "ok")
    /\ ~RefreshDue(acq) => CacheUntouched(acq)

\* C1 (as stated): an acquire() that finishes has issued one login exchange
\* (generateSession) exactly when no session was cached, the cached status
\* was not success or the elapsed time exceeded the TTL; otherwise it issued
\* none and left the cached session and its issue time unchanged.
C1_ExchangeIffRefreshDue == [][AcquireFinishes => ExchangeIffRefreshDue']_vars

\* C1 (amended): an acquire() that finishes has invoked authenticate exactly
\* when no session was cached, the cached status was not success or the
\* elapsed time exceeded the TTL; that invocation issued a login exchange
\* exactly when the four credentials were present and the one-time code could
\* be computed; otherwise no exchange happened and the cached session and its
\* issue time are unchanged.
C1_AttemptIffRefreshDue == [][AcquireFinishes => AttemptIffRefreshDue']_vars

\* C1 witness: a run that found a valid session older than the TTL and logged in again.
C1_Witness ==
    /\ pc[1] = "p_done"
    /\ acq.auth.status = "success"
    /\ acq.now - acq.time > AUTH_TTL_SECONDS
    /\ nExch = acq.exch + 1
    /\ angel_auth.status = "success"

\* C2 (as stated): callers that find no cached session issue one login
\* exchange in total: as long as every exchange was answered with a full
\* success, there has been at most one.
C2_SingleExchange == allExchOk => nExch <= 1

\* C3 (as stated): whenever no thread is inside authenticate, the handle and
\* the access, feed and refresh tokens come from one and the same exchange.
C3_OneExchangeOwnsSession ==
    ( /\ \A t \in Threads : pc[t] \notin AuthPcs
      /\ _smart_api.id # 0
      /\ (_auth_token # 0 \/ _feed_token # 0 \/ _refresh_token # 0) )
    => /\ _auth_token = _feed_token
       /\ _feed_token = _refresh_token
       /\ _smart_api.sess = _auth_token

\* C4 (as stated): when authenticate has returned failed to the dashboard, the
\* session handle and the three tokens are what they were when it was entered.
C4_FailureLeavesCache ==
    (pc[1] = "p_store" /\ auth_result[1].status = "failed") => SessionState = pre[1]

\* C9 (as stated): no .get is ever executed on a reply that is not a dict.
C9_NoGetOnNonDict == badGet = {}


\* ---- the option-chain tool
SpotFailed == ltp_res[1].status # "success"

ResolutionEmpty == DOMAIN token_map = {}

\* The price request failed (no reply, or not a structured success), or its
\* reply holds no item of a resolved instrument.
BatchYieldsNothing ==
    \/ market_data.kind # "ok"
    \/ ~\E i \in 1..Len(market_data.fetched) : market_data.fetched[i] \in DOMAIN token_map

Fallback == SpotFailed \/ ResolutionEmpty \/ BatchYieldsNothing

\* C5: a finished getSnapshot returned a simulated snapshot exactly when the
\* spot fetch failed, nothing was resolved, or the price request failed or
\* yielded no leg for a resolved instrument, and a live one exactly otherwise.
C5_SimulatedIffFallback ==
    pc[1] = "c_done" =>
        /\ (result.data_source = "simulated") <=> Fallback
        /\ (result.data_source = "live") <=> ~Fallback

\* C5 witness: the price request was answered with a structured success that
\* holds items, none of a resolved instrument, and the snapshot is simulated.
C5_Witness ==
    /\ pc[1] = "c_done"
    /\ ~SpotFailed
    /\ ~ResolutionEmpty
    /\ market_data.kind = "ok"
    /\ Len(market_data.fetched) > 0
    /\ result.data_source = "simulated"

\* C6: a call of getSnapshot that has been started can always go on, and when
\* it ends no exception has left it and it has returned a snapshot.
C6_AlwaysReturnsSnapshot ==
    /\ pc[1] \notin {"idle", "c_done"} => ENABLED NextChain
    /\ pc[1] = "c_done" =>
          /\ ~raised
          /\ result.status = "success"
          /\ result.data_source \in {"live", "simulated"}
          /\ Len(result.option_chain) > 0

\* C6 witness: the instrument list is absent after a failed download, the
\* filter loop raised, and the call still ended with a snapshot.
C6_Witness ==
    /\ pc[1] = "c_done"
    /\ ~_instrument_master.loaded
    /\ "atm_strike" \in defined
    /\ target_dt # NoDate
    /\ result.data_source = "simulated"

HasWarningFlag(r) ==
    \E k \in DOMAIN r : k \in {"warning", "simulation_warning"} /\ r[k] = TRUE

\* C7 (as stated): every simulated snapshot returned carries a warning flag
\* that is true.
C7_SimulatedCarriesWarning ==
    (pc[1] = "c_done" /\ result.data_source = "simulated") => HasWarningFlag(result)

\* C8: a getSnapshot call issues at most one option price request, that
\* request names every resolved instrument, and a live snapshot rests on
\* exactly one.
C8_OneBatchRequest ==
    /\ Len(batchReqs) <= 1
    /\ Len(batchReqs) = 1 => batchReqs[1] = DOMAIN token_map
    /\ (pc[1] = "c_done" /\ result.data_source = "live") => Len(batchReqs) = 1

\* C8 witness: one request that names four resolved instruments.
C8_Witness ==
    /\ Len(batchReqs) = 1
    /\ Cardinality(batchReqs[1]) >= 4
    /\ pc[1] = "c_done"
    /\ result.data_source = "live"

\* The date an instrument's expiry text names, in whatever letter case.
ExpiryDateOf(text) ==
    CASE text \in {"28NOV2024", "28Nov2024", "28nov2024"} -> <<2024, 11, 28>>
      [] text \in {"05DEC2024", "05Dec2024"} -> <<2024, 12, 5>>
      [] OTHER -> NoDate

\* The strike an instrument's strike text stands for, in index points.
StrikePoints(text) ==
    CASE text = "2400000.000000" -> [n |-> 24000, d |-> 1]
      [] text = "2350000.000000" -> [n |-> 23500, d |-> 1]
      [] text = "2460000.000000" -> [n |-> 24600, d |-> 1]
      [] text = "2450050.000000" -> [n |-> 49001, d |-> 2]
      [] text = "24550.000000" -> [n |-> 24550, d |-> 1]
      [] OTHER -> [n |-> -1, d |-> 1]

RequestedDate ==
    CASE expiry_date = "2024-11-28" -> <<2024, 11, 28>>
      [] expiry_date = "2024-12-05" -> <<2024, 12, 5>>
      [] OTHER -> NoDate

Wanted(inst) ==
    /\ ContainsNIFTY(Upper(inst.name))
    /\ inst.instrumenttype = "OPTIDX"
    /\ ExpiryDateOf(inst.expiry) # NoDate
    /\ ExpiryDateOf(inst.expiry) = RequestedDate
    /\ StrikePoints(inst.strike).n # -1
    /\ StrikePoints(inst.strike).n >= (atm_strike - 500) * StrikePoints(inst.strike).d
    /\ StrikePoints(inst.strike).n <= (atm_strike + 500) * StrikePoints(inst.strike).d

WantedTokens ==
    { _instrument_master.items[i].token :
        i \in { j \in 1..Len(_instrument_master.items) : Wanted(_instrument_master.items[j]) } }

\* C10: once the resolver has run, its mapping holds exactly the instruments
\* of the list with a matching name, type index option, the requested expiry
\* date and a strike (in points) within 500 of the centre, each with that
\* strike; it is empty, and nothing was raised, when there is none.
C10_ResolveExact ==
    resolved =>
        /\ DOMAIN token_map = WantedTokens
        /\ \A i \in 1..Len(_instrument_master.items) :
              _instrument_master.items[i].token \in DOMAIN token_map =>
                  token_map[_instrument_master.items[i].token].strike
                      = StrikePoints(_instrument_master.items[i].strike)
        /\ ~raised

\* C10 witness: instruments with upper, title and lower case expiry texts and
\* a strike on the band's edge are resolved; one outside the band is not.
C10_Witness ==
    /\ resolved
    /\ {101, 102, 103} \subseteq DOMAIN token_map
    /\ 104 \notin DOMAIN token_map
    /\ \E i \in 1..Len(_instrument_master.items) : _instrument_master.items[i].token = 104


\* C11: the simulated snapshot holds exactly the 21 strikes ATM + 50 i, i in
\* -10..10, each with one CE and one PE leg (42 legs, ordered by strike), all
\* legs with the same placeholder price, volume, open interest and volatility,
\* and two calls with equal arguments return equal snapshots.
C11_LadderDeterministic ==
    sim_last.called =>
        LET r == sim_last.ret
            oc == r.option_chain
            ladder == {sim_last.atm + 50 * i : i \in -10..10}
        IN  /\ r.data_source = "simulated"
            /\ r.spot_price = sim_last.spot
            /\ r.atm_strike = sim_last.atm
            /\ r.expiry_date = sim_last.expiry
            /\ Len(oc) = 42
            /\ {oc[k].strike : k \in 1..Len(oc)} = ladder
            /\ \A s \in ladder : \A ty \in {"CE", "PE"} :
                   Cardinality({k \in 1..Len(oc) : oc[k].strike = s /\ oc[k].type = ty}) = 1
            /\ \A k \in 1..(Len(oc) - 1) : oc[k].strike <= oc[k + 1].strike
            /\ \A k \in 1..Len(oc) :
                   /\ oc[k].last_price = oc[1].last_price
                   /\ oc[k].volume = oc[1].volume
                   /\ oc[k].oi = oc[1].oi
                   /\ oc[k].iv = oc[1].iv
            /\ (/\ sim_prev.called
                /\ sim_prev.spot = sim_last.spot
                /\ sim_prev.atm = sim_last.atm
                /\ sim_prev.expiry = sim_last.expiry) => sim_prev.ret = sim_last.ret

C11_Witness ==
    /\ sim_prev.called
    /\ sim_last.called
    /\ sim_last.atm = 24100
    /\ sim_prev.spot = sim_last.spot
    /\ sim_prev.atm = sim_last.atm
    /\ sim_prev.expiry = sim_last.expiry

\* --- dashboard
\* the market-data file the dashboard read says simulated, or warns of it
ArtifactSimulated ==
    /\ market_data_json.exists
    /\ market_data_json.parses
    /\ market_data_json.json.isdict
    /\ \/ market_data_json.json.data_source = "simulated"
       \/ market_data_json.json.simulation_warning = "true"

\* C12: whenever the market-data file read by the dashboard is marked
\* simulated, the simulated-data warning is rendered before the
\* recommendation.
C12_WarningBeforeRecommendation ==
    \A i \in 1..Len(shown) :
        (shown[i] = "recommendation" /\ ArtifactSimulated) =>
            \E j \in 1..(i - 1) : shown[j] = "simulated_warning"

C12_Witness ==
    /\ ArtifactSimulated
    /\ market_data_json.json.data_source = "simulated"
    /\ market_data_json.json.simulation_warning = "absent"
    /\ shown = <<"simulated_warning", "recommendation">>

\* --- backtest
SpecExampleCall ==
    /\ bt_args.strategy_type = "long_call"
    /\ bt_args.historical_data = Series(<<100, 110, 90, 130>>)
    /\ bt_args.strike = 105
    /\ bt_args.premium = 5

\* C13 (as stated): for n >= 2 closes the backtest evaluates n - 1 trades,
\* reports totalTrades = n - 1 and winRate = wins / (n - 1); the worked
\* example gives 3 trades with P&L [0, -5, 20] and winRate 1/3.
C13_TradesPerPair ==
    (bt_ret.status = "success" /\ Len(bt_args.historical_data.bars) >= 2) =>
        LET n == Len(bt_args.historical_data.bars)
            wins == Cardinality({i \in 1..Len(bt_pnls) : bt_pnls[i] > 0})
        IN  /\ Len(bt_pnls) = n - 1
            /\ bt_ret.total_trades = n - 1
            /\ bt_ret.win_rate.n * (n - 1) = wins * bt_ret.win_rate.d
            /\ SpecExampleCall =>
                  /\ bt_pnls = <<0, -5, 20>>
                  /\ bt_ret.total_trades = 3
                  /\ 3 * bt_ret.win_rate.n = bt_ret.win_rate.d

\* The P&L of one trade as section 4.6 states it, for a lot size of 1.
StatedPnl(kind, exit, strike, premium) ==
    LET call == max(0, exit - strike)
        put == max(0, strike - exit)
    IN  CASE kind = "long_call" -> call - premium
          [] kind = "long_put" -> put - premium
          [] kind = "short_call" -> premium - call
          [] kind = "short_put" -> premium - put
          [] kind = "straddle" -> call + put - 2 * premium

\* C14 (as stated): for every strategy kind and every consecutive close pair
\* the per-trade P&L is the stated formula of that kind.
C14_PnlPerStrategy ==
    bt_ret.status = "success" =>
        \A i \in 1..Len(bt_pnls) :
            bt_pnls[i] = StatedPnl(bt_args.strategy_type, bt_args.historical_data.bars[i + 1],
                                   bt_args.strike, bt_args.premium)

\* C15: a trade is counted as a win exactly when its P&L is greater than
\* zero; a trade with P&L zero is a loss.
C15_WinIffPositive ==
    bt_ret.status = "success" =>
        bt_ret.win_rate.n = Cardinality({i \in 1..Len(bt_pnls) : bt_pnls[i] > 0})

C15_Witness ==
    /\ bt_ret.status = "success"
    /\ bt_pnls = <<0, -5, 20>>
    /\ bt_ret.win_rate.n = 1

\* C16 (as stated): a series of fewer than 10 bars, the empty and the absent
\* one included, is answered with a failure and no statistics, and a series
\* of at least 10 bars with a result.
C16_ShortSeriesRejected ==
    bt_ret.status # "unset" =>
        IF bt_args.historical_data.none \/ Len(bt_args.historical_data.bars) < 10
          THEN bt_ret = [NoBtResult EXCEPT !.status = "failed"]
          ELSE bt_ret.status = "success"

\* --- indicators
\* C17: compute() on fewer than 20 bars, an empty or absent series included,
\* returns the insufficient-data error and no indicator set; on 20 or more
\* well-formed bars it returns an indicator set.
C17_TwentyBarsOrError ==
    ind_ret.status # "unset" =>
        IF ind_args.none \/ Len(ind_args.bars) < 20
          THEN ind_ret = [NoIndicators EXCEPT !.status = "failed", !.error = "insufficient_data"]
          ELSE /\ ind_ret.status = "success"
               /\ ind_ret.trend \in {"bullish", "bearish", "neutral"}
               /\ ind_ret.signal \in {"bullish", "bearish", "neutral"}

C17_Witness ==
    /\ ~ind_args.none
    /\ Len(ind_args.bars) = 19
    /\ ind_ret.error = "insufficient_data"

\* C18 (as stated): the trend is bullish exactly when the last EMA5 is above
\* the last EMA20, bearish exactly when it is below, neutral exactly when
\* the two are equal.
C18_TrendThreeWay ==
    ind_ret.status = "success" =>
        /\ ind_ret.trend = "bullish" <=> RLess(ind_curr.ema_20, ind_curr.ema_5)
        /\ ind_ret.trend = "bearish" <=> RLess(ind_curr.ema_5, ind_curr.ema_20)
        /\ ind_ret.trend = "neutral" <=> ind_curr.ema_5 = ind_curr.ema_20

\* C19 (as stated): the signal is bullish only with a bullish trend, RSI < 70
\* and MACD above its signal line, bearish only with a bearish trend,
\* RSI > 30 and MACD below its signal line, and neutral otherwise.
C19_SignalNeedsMacd ==
    ind_ret.status = "success" =>
        LET up == /\ ind_ret.trend = "bullish"
                  /\ Lt(ind_curr.rsi, 70)
                  /\ RLess(ind_curr.macd_signal, ind_curr.macd)
            down == /\ ind_ret.trend = "bearish"
                    /\ Gt(ind_curr.rsi, 30)
                    /\ RLess(ind_curr.macd, ind_curr.macd_signal)
        IN  ind_ret.signal = (IF up THEN "bullish" ELSE IF down THEN "bearish" ELSE "neutral")

\* C20 (as stated): the confidence is 0.75 exactly when the signal is
\* bullish or bearish and 0.5 exactly when it is neutral.
C20_ConfidenceBySignal ==
    ind_ret.status = "success" =>
        ind_ret.confidence = (IF ind_ret.signal \in {"bullish", "bearish"} THEN 75 ELSE 50)

\* --- pricing
\* C21 (as stated): the time to expiry is max(1, calendar days to expiry) / 365,
\* so an expiry of today or earlier is priced with one day; T is never zero
\* or negative.
C21_TimeToExpiryClamped ==
    g_last.called =>
        /\ g_last.T = Norm(max(1, g_last.expiry - g_last.today), 365)
        /\ g_last.T.n > 0

\* calls for the same contract that used the same time to expiry
SameParameters(a, b) ==
    /\ a.called /\ b.called
    /\ a.spot = b.spot /\ a.strike = b.strike /\ a.expiry = b.expiry
    /\ a.T = b.T

\* C22: for the same parameters the call delta and the put delta differ by 1
\* and the gamma of a call equals that of a put.
C22_DeltaParity ==
    (SameParameters(g_prev, g_last) /\ g_prev.opt_type = "CE" /\ g_last.opt_type = "PE") =>
        /\ g_prev.ret.delta - g_last.ret.delta = 1000000000
        /\ g_prev.ret.gamma = g_last.ret.gamma

C22_Witness ==
    /\ SameParameters(g_prev, g_last)
    /\ g_prev.opt_type = "CE"
    /\ g_last.opt_type = "PE"
    /\ g_prev.spot = 24500
    /\ g_prev.ret.delta > 500000000
    /\ g_last.ret.delta < 0

\* C23 (as stated): the indicator, pricing and backtest tools leave the
\* session handle, the tokens and the instrument cache alone, and two calls
\* with equal arguments return equal results whatever time has passed.
C23_PureTools ==
    /\ (g_last.called \/ ind_ret.status # "unset" \/ bt_ret.status # "unset") =>
          (SessionState = NoSession /\ ~_instrument_master.loaded)
    /\ (/\ g_prev.called /\ g_last.called
        /\ g_prev.spot = g_last.spot /\ g_prev.strike = g_last.strike
        /\ g_prev.expiry = g_last.expiry /\ g_prev.opt_type = g_last.opt_type)
          => g_prev.ret = g_last.ret

\* --- authenticate_angel, failures
\* C24: every return of authenticate_angel carries an explicit status, failed
\* or success, and it is success exactly when the login reply was a dict with
\* a true status; a missing credential, a rejected login, a reply that is a
\* string, None or a list, and a raised exception all return failed.
C24_FailuresAbsorbed ==
    [][\A t \in Threads :
          (pc[t] \in AuthPcs /\ pc'[t] \notin AuthPcs) =>
              /\ auth_result'[t].status \in {"failed", "success"}
              /\ auth_result'[t].status = "success" <=>
                     session_data'[t].kind \in {"ok", "okempty"}
              /\ auth_result'[t].status = "failed" =>
                     auth_result'[t].error \in
                        {"missing_credentials", "auth_failed", "exception"}]_vars

\* a call has returned failed after a reply of None reached session_data.get
C24_Witness ==
    \E t \in Threads :
        /\ pc[t] \notin AuthPcs
        /\ session_data[t].kind = "none"
        /\ auth_result[t] = Failed("exception")

\* --- main.run
\* the user consented to simulated data at the prompt of `check`: by
\* OPTITRADE_ALLOW_SIMULATED=1, or by typing y at a terminal
Consented(check) ==
    \/ main_env.allow_sim
    \/ /\ main_env.isatty
       /\ \E c \in consents : c.check = check /\ c.asked /\ c.answer \in {"y", "Y"}

\* C25: the crew is kicked off only if every required variable is set and
\* the login succeeded, or the user consented at each failed check; without
\* a terminal and without OPTITRADE_ALLOW_SIMULATED=1 a failed check ends the
\* run with exit status 1 and no kickoff.
C25_KickoffGated ==
    /\ Contains(main_out, "kickoff") =>
          /\ Missing => Consented("missing")
          /\ auth_result[1].status # "success" => Consented("auth")
    /\ (/\ pc[1] = "m_done"
        /\ ~main_env.isatty /\ ~main_env.allow_sim
        /\ Missing \/ auth_result[1].status = "failed") => main_out = <<"exit1">>

C25_Witness ==
    /\ main_out = <<"kickoff">>
    /\ Missing
    /\ auth_result[1].status = "failed"
    /\ main_env.isatty
    /\ ~main_env.allow_sim

\* --- expiry dates
\* the first Thursday after `today`
ThursdayAfter(today) == CHOOSE d \in (today + 1)..(today + 7) : d % 7 = 3

\* C26 (as stated): the tool returns exactly `count` dates; the first is today
\* on a Thursday before 15:00 and the first Thursday after today otherwise,
\* and each later one follows the one before by 7 days.
C26_NextThursdays ==
    exp_call.called =>
        LET first == IF exp_call.today % 7 = 3 /\ exp_call.hour < 15
                       THEN exp_call.today ELSE ThursdayAfter(exp_call.today)
        IN  /\ Len(exp_call.ret) = exp_call.count
            /\ \A i \in 1..Len(exp_call.ret) : exp_call.ret[i] = first + 7 * (i - 1)

\* --- the wait for the crew
\* C27 (as stated): the wait ends, after at most 450 polls, whether or not the
\* crew thread finishes, and a timeout exit is followed by the pipeline-error
\* outcome.
C27_WaitEndsInError ==
    /\ [](elapsed <= CREW_TIMEOUT_SECONDS)
    /\ (upc = "loop") ~> (upc = "done")
    /\ timed_out ~> (outcome = "error")

\* the part of C27 that holds: the wait ends within the timeout
WaitEnds ==
    /\ [](elapsed <= CREW_TIMEOUT_SECONDS)
    /\ (upc = "loop") ~> (upc = "done")

\* C28 (as stated): after the timeout error is recorded, it is still in
\* result_container when it is checked, and the run is reported as an error.
C28_TimeoutErrorKept ==
    timed_out =>
        /\ upc \in {"drain", "finish", "check"} => result_container.error = TimeoutText
        /\ upc = "done" => outcome = "error"

\* the known task keys of a list of updates, each at its first occurrence
KnownTasks(updates) == ProcessTasks(<<>>, updates)

NoDuplicates(list) ==
    \A i, j \in 1..Len(list) : list[i] = list[j] => i = j

\* C29 (as stated): all that the callbacks appended before the crew thread
\* ended has been read once the wait is over.
C29_AllUpdatesRead ==
    (upc = "done" /\ crew = "done") => seen = live_updates

\* the updates whose slice has been worked off
Processed ==
    IF upc = "process" THEN SubSeq(seen, 1, Len(seen) - Len(new_updates))
    ELSE IF upc = "finish" THEN SubSeq(seen, 1, Len(seen) - Len(final_updates))
    ELSE seen

\* C29 (amended): what the UI thread has read is, in order and without a gap
\* or a repeat, the head of live_updates: up to last_update_count while the
\* loop runs, all that was appended before the final drain afterwards, and
\* the whole list when the loop ended because the crew thread did; the
\* completed-task list is the known task keys of the sliceVars worked off, each
\* once, at most 9.
C29_ReadOnceInOrder ==
    /\ [](/\ Len(seen) <= Len(live_updates)
          /\ seen = SubSeq(live_updates, 1, Len(seen))
          /\ upc \in {"loop", "sleep", "process", "timeout", "drain"} =>
                Len(seen) = last_update_count
          /\ (upc \in {"finish", "check", "done"} /\ ~timed_out) => seen = live_updates
          /\ completed_tasks_set = KnownTasks(Processed)
          /\ NoDuplicates(completed_tasks_set)
          /\ Len(completed_tasks_set) <= Cardinality(TASK_LABELS))
    /\ [][(upc = "drain" /\ upc' = "finish") => seen' = live_updates]_vars

\* the same task key came twice, once read by a poll and once by the drain
C29_Witness ==
    /\ upc = "done"
    /\ Len(seen) = 2
    /\ seen[1] = seen[2]
    /\ seen[1].kind = "task"
    /\ last_update_count = 1
    /\ completed_tasks_set = <<"fetch_market_data">>

\* --- data requests
\* C30 (as stated): every broker data request is made on a session handle
\* whose most recent login exchange succeeded.
C30_RequestsOnLiveSession ==
    \A req \in requests : req.handle.ok
====
